---- MODULE Spec2Model ----
(***************************************************************************)
(* NEOWISE ingest pipeline of koji0215/web_standard_viewer.                *)
(*                                                                         *)
(* Two worker implementations are modelled side by side:                   *)
(*   "ts"   get_neowise_threadsafe        (src/neowise_threadsafe.py)      *)
(*   "cone" _process_single_source -> get_neowise_raw_data                 *)
(*   "tap"  _process_single_source -> get_neowise_by_allwise_tap           *)
(*          (src/prototype/scripts/neowise_to_sqlite.py)                   *)
(* together with the module-level query_semaphore and db_lock, the SQLite  *)
(* file (committed rows, one pending transaction per connection, the       *)
(* engine's single writer lock with its busy timeout) and the driver loop  *)
(* that collects the futures.                                              *)
(*                                                                         *)
(* Units: magnitudes are integers in units of 0.00001 mag, MJDs and fluxes *)
(* small integers; sleep times are in tenths of a second; sky positions    *)
(* are in units of 0.003 arcsec (1/1200000 degree).                        *)
(***************************************************************************)
EXTENDS Integers, Sequences, FiniteSets, Bags, TLC

(***************************************************************************)
(* Program constants                                                       *)
(***************************************************************************)
MAX_CONCURRENT_QUERIES == 4

max_attempts == 4

EpochGap == 100

SnrHigh == 300

SnrLow == 10

(***************************************************************************)
(* Bounds of the model                                                     *)
(***************************************************************************)
\* sources (and futures) of a run of the detailed specification
NumSources == 2

\* sources, and pool threads, of a run of the pool specification: one more
\* than the semaphore has permits
NumPoolWorkers == 5

\* remote calls of a run of the detailed specification that raise
MaxRemoteFaults == 4

\* remote calls of a run of the pool specification that raise
MaxPoolFaults == 2

\* sources of a run of the contention specification whose catalog has rows
NumWriters == 2

\* sources of a run of the store specification
NumStoreSources == 1

\* invocations of the script with --sources in the store specification
MaxRuns == 2

\* invocations of the script with --clear in the store specification
MaxClears == 2

\* the ra (and dec) values a source list row can carry
MaxCoord == 2

\* rows of the CSV source list in the dispatch specification
NumRows == 3

\* sources of a run of the retry specification
NumRetrySources == 1

\* rows of the source list in the summary specification, from none
MaxListLen == 2

\* None / NaN / NULL
NULL == -1

\* the float inf: 10**(-0.4 * mag) of a magnitude below -770
Inf == 1000000000

Bands == {"W1", "W2"}

(***************************************************************************)
(* The zero-point table (scan_id, mjd, w1dmag, w2dmag) and fetched tables. *)
(* A fetched row carries both bands and the quality columns: the flag      *)
(* strings as sequences of characters, qi_fact and saa_sep in tenths, sat  *)
(* in hundredths.  flux/ferr are the band's flux and flux_error on an      *)
(* integer scale.                                                          *)
(***************************************************************************)
zp_stb ==
    << [scan_id |-> 1, mjd |-> 10, w1dmag |-> 1, w2dmag |-> 0],
       [scan_id |-> 2, mjd |-> 20, w1dmag |-> 0, w2dmag |-> 1],
       [scan_id |-> 4, mjd |-> 30, w1dmag |-> 4, w2dmag |-> 0],
       [scan_id |-> 5, mjd |-> 40, w1dmag |-> -4, w2dmag |-> 0],
       [scan_id |-> 6, mjd |-> 50, w1dmag |-> 2, w2dmag |-> 0],
       [scan_id |-> 6, mjd |-> 50, w1dmag |-> 2, w2dmag |-> 0] >>

\* quality columns of an exposure that passes every default predicate in
\* both bands
GoodCols ==
    [cc_flags |-> <<"0", "0">>, ph_qual |-> <<"A", "A">>,
     moon_masked |-> <<"0", "0">>, sso_flg |-> 0, qi_fact |-> 10,
     saa_sep |-> 50, w1sat |-> 0, w2sat |-> 0, w1rchi2 |-> 1, w2rchi2 |-> 1,
     qual_frame |-> 10, w1sky |-> 1, w2sky |-> 1]

FullRow(mjd, cntr, scan, m1, m2, cols, fl, fe) ==
    [mjd |-> mjd, allwise_cntr |-> cntr, scan_id |-> scan,
     w1mpro |-> m1, w2mpro |-> m2, flux |-> fl, ferr |-> fe] @@ cols

\* an exposure that passes (q1, q2) or, by a diffraction spike in cc_flags,
\* fails the default filter of W1, of W2
Row(mjd, cntr, scan, m1, m2, q1, q2, fl, fe) ==
    FullRow(mjd, cntr, scan, m1, m2,
            [GoodCols EXCEPT !.cc_flags = <<IF q1 THEN "0" ELSE "D",
                                            IF q2 THEN "0" ELSE "D">>],
            fl, fe)

\* two visits 200 d apart, all rows pass the default filter, high SNR
TableGood ==
    << Row(15, 7, 1, 12, 13, TRUE, TRUE, 900, 1),
       Row(16, 7, 2, 12, NULL, TRUE, TRUE, 900, 1),
       Row(216, 7, 3, 11, 13, TRUE, TRUE, 900, 1) >>

\* rows survive the MJD cutoff, none passes the default filter
TableNoPass ==
    << Row(15, 7, 1, 12, 13, FALSE, FALSE, 900, 1),
       Row(16, 7, 2, 12, 13, FALSE, FALSE, 900, 1) >>

\* rows at or below the ZP table's minimum MJD
TablePreCut ==
    << Row(9, 7, 1, 12, 13, TRUE, TRUE, 900, 1),
       Row(10, 7, 1, 12, 13, TRUE, TRUE, 900, 1) >>

\* two distinct allwise_cntr values
TableMulti ==
    << Row(15, 7, 1, 12, 13, TRUE, TRUE, 900, 1),
       Row(16, 8, 2, 12, 13, TRUE, TRUE, 900, 1),
       Row(17, 7, 2, 12, 13, TRUE, TRUE, 900, 1) >>

\* the exposures have no AllWISE association: allwise_cntr is null
TableNoCntr ==
    << Row(15, NULL, 1, 12, 13, TRUE, TRUE, 900, 1) >>

TableEmpty == << >>

Tables ==
    {TableGood, TableNoPass, TablePreCut, TableMulti, TableNoCntr, TableEmpty}

\* three visits 200 d apart: two exposures of high SNR, one faint exposure,
\* one exposure of high SNR
TableGap ==
    << Row(15, 7, 1, 12, 13, TRUE, TRUE, 900, 1),
       Row(16, 7, 2, 12, 13, TRUE, TRUE, 900, 1),
       Row(216, 7, 3, 11, 13, TRUE, TRUE, 100, 1),
       Row(416, 7, 3, 12, 13, TRUE, TRUE, 900, 1) >>

\* one visit, of two exposures that pass the default filter and one that
\* fails it in both bands
TableMixed ==
    << Row(15, 7, 1, 12, 13, TRUE, TRUE, 900, 1),
       Row(16, 7, 2, 12, 13, FALSE, FALSE, 900, 1),
       Row(17, 7, 2, 12, 13, TRUE, TRUE, 900, 1) >>

\* one exposure of magnitude -800 without an uncertainty (W1 only): its
\* flux overflows to inf and its flux_error, inf * NaN, is NaN
TableOverflow ==
    << FullRow(15, 7, 3, -80000000, NULL, GoodCols, Inf, NULL) >>

\* two visits 200 d apart: an exposure of SNR 100 in W1 only, an exposure of
\* SNR 5 in both bands
TableFaint ==
    << Row(15, 7, 1, 12, NULL, TRUE, TRUE, 100, 1),
       Row(216, 7, 3, 12, 13, TRUE, TRUE, 5, 1) >>

\* the rows of TableGood as a service returns them that does not order them
TableUnsorted ==
    << Row(216, 7, 3, 11, 13, TRUE, TRUE, 900, 1),
       Row(15, 7, 1, 12, 13, TRUE, TRUE, 900, 1),
       Row(16, 7, 2, 12, NULL, TRUE, TRUE, 900, 1) >>

\* one exposure, of the scan the zero-point table lists twice
TableDupScan ==
    << Row(60, 7, 6, 12, 13, TRUE, TRUE, 900, 1) >>

\* the catalogs of the store specification
StoreTables ==
    Tables \cup {TableGap, TableMixed, TableOverflow, TableFaint, TableUnsorted,
                 TableDupScan}

\* one visit of twelve exposures: the first passes every predicate, each of
\* the others fails one predicate (in one band where the column is the
\* band's or the flag string has a character per band); the first is 0.001
\* mag off the others
TableFlags ==
    << FullRow(15, 7, 3, 200, 200, GoodCols, 900, 1),
       FullRow(16, 7, 3, 100, 100,
               [GoodCols EXCEPT !.cc_flags = <<"0", "D">>], 900, 1),
       FullRow(17, 7, 3, 100, 100,
               [GoodCols EXCEPT !.cc_flags = <<"D", "0">>], 900, 1),
       FullRow(18, 7, 3, 100, 100,
               [GoodCols EXCEPT !.ph_qual = <<"A", "B">>], 900, 1),
       FullRow(19, 7, 3, 100, 100,
               [GoodCols EXCEPT !.moon_masked = <<"0">>], 900, 1),
       FullRow(20, 7, 3, 100, 100, [GoodCols EXCEPT !.sso_flg = 1], 900, 1),
       FullRow(21, 7, 3, 100, 100, [GoodCols EXCEPT !.qi_fact = 5], 900, 1),
       FullRow(22, 7, 3, 100, 100, [GoodCols EXCEPT !.saa_sep = 49], 900, 1),
       FullRow(23, 7, 3, 100, 100, [GoodCols EXCEPT !.w1sat = 6], 900, 1),
       FullRow(24, 7, 3, 100, 100, [GoodCols EXCEPT !.w2rchi2 = 51], 900, 1),
       FullRow(25, 7, 3, 100, 100, [GoodCols EXCEPT !.qual_frame = 0], 900, 1),
       FullRow(26, 7, 3, 100, 100, [GoodCols EXCEPT !.w2sky = NULL], 900, 1) >>

\* one visit of eleven exposures that pass every predicate (W1 only): ten
\* of 0.001 mag whose zero-point corrections are +0.00004 and -0.00004 mag
\* in turn, and one of 0.002 mag in a scan the zero-point table lacks
TableOutlier ==
    [i \in 1..11 |->
        FullRow(14 + i, 7,
                IF i = 11 THEN 3 ELSE IF i % 2 = 0 THEN 4 ELSE 5,
                IF i = 11 THEN 200 ELSE 100,
                NULL, GoodCols, 900, 1)]

\* the catalogs of the query specification
QueryTables == {TableMixed, TableFlags, TableOutlier}

(***************************************************************************)
(* Sequence helpers                                                        *)
(***************************************************************************)
RECURSIVE SumSeq(_)
SumSeq(s) == IF s = << >> THEN 0 ELSE Head(s) + SumSeq(Tail(s))

RECURSIVE SeqToBag(_)
SeqToBag(s) ==
    IF s = << >> THEN EmptyBag ELSE SetToBag({Head(s)}) (+) SeqToBag(Tail(s))

Range(s) == {s[i] : i \in DOMAIN s}

Min(S) == CHOOSE x \in S : \A y \in S : x <= y

(***************************************************************************)
(* Kernel helpers shared by the ingest paths                               *)
(***************************************************************************)
Mag(row, band) == IF band = "W1" THEN row.w1mpro ELSE row.w2mpro

\* cc_flag_idx = 0 if band == 'W1' else 1 (and ph_qual_idx, moon_mask_idx)
BandIdx(band) == IF band = "W1" THEN 0 ELSE 1

\* s.str[idx]: the character, NaN beyond the end of the string
CharAt(s, idx) == IF idx + 1 \in DOMAIN s THEN s[idx + 1] ELSE "NaN"

\* the quality columns of one band: sat_col, rchi2_col, sky_col are the
\* band's, the other columns are shared
BandCols(row, band) ==
    [cc_flags |-> row.cc_flags, ph_qual |-> row.ph_qual,
     moon_masked |-> row.moon_masked, sso_flg |-> row.sso_flg,
     qi_fact |-> row.qi_fact, saa_sep |-> row.saa_sep,
     sat |-> IF band = "W1" THEN row.w1sat ELSE row.w2sat,
     rchi2 |-> IF band = "W1" THEN row.w1rchi2 ELSE row.w2rchi2,
     qual_frame |-> row.qual_frame,
     sky |-> IF band = "W1" THEN row.w1sky ELSE row.w2sky]

Predicates ==
    {"cc_flags", "sso_flg", "qi_fact", "saa_sep", "ph_qual", "moon_masked",
     "sat", "rchi2", "qual_frame", "sky"}

\* one predicate of the default filter on the columns c of a band; a
\* comparison with a null is false
Predicate(p, c, idx) ==
    CASE p = "cc_flags" -> CharAt(c.cc_flags, idx) = "0"
      [] p = "sso_flg" -> c.sso_flg = 0
      [] p = "qi_fact" -> c.qi_fact = 10
      [] p = "saa_sep" -> c.saa_sep # NULL /\ c.saa_sep >= 50
      [] p = "ph_qual" -> CharAt(c.ph_qual, idx) = "A"
      [] p = "moon_masked" -> CharAt(c.moon_masked, idx) = "0"
      [] p = "sat" -> c.sat # NULL /\ c.sat <= 5
      [] p = "rchi2" -> c.rchi2 # NULL /\ c.rchi2 <= 50
      [] p = "qual_frame" -> c.qual_frame # NULL /\ c.qual_frame > 0
      [] p = "sky" -> c.sky # NULL

\* the ten conjoined default predicates on a fetched row
Quality(row, band) ==
    \A p \in Predicates : Predicate(p, BandCols(row, band), BandIdx(band))

Dmag(z, band) == IF band = "W1" THEN z.w1dmag ELSE z.w2dmag

\* the table as the remote service returned it
SortMjdOff(df) == df

\* table.sort('mjd'), ORDER BY mjd: ascending, rows of equal mjd in their order
SortMjd(df) ==
    LET rank(i) ==
            Cardinality({j \in DOMAIN df :
                            \/ df[j].mjd < df[i].mjd
                            \/ df[j].mjd = df[i].mjd /\ j < i}) + 1
    IN  [k \in DOMAIN df |-> df[CHOOSE i \in DOMAIN df : rank(i) = k]]

\* raw_df[raw_df['mjd'] > zp_stb_df['mjd'].min()]
MjdCutoff(df) ==
    IF zp_stb = << >> THEN df
    ELSE LET m == Min({zp_stb[i].mjd : i \in DOMAIN zp_stb})
             Keep(r) == r.mjd > m
         IN  SelectSeq(df, Keep)

\* raw_df.dropna(subset=[mag_col])
DropNa(df, band) == LET Keep(r) == Mag(r, band) # NULL IN SelectSeq(df, Keep)

\* df.merge(zp_stb_df[['scan_id', dmag_col]], on='scan_id', how='left') followed
\* by fillna(0): one output row per matching ZP entry, one with dmag 0 when
\* the scan is not in the table.
RECURSIVE MergeZp(_, _)
MergeZp(df, band) ==
    IF df = << >> THEN << >>
    ELSE LET r == Head(df)
             IsScan(z) == z.scan_id = r.scan_id
             hits == SelectSeq(zp_stb, IsScan)
             out == IF hits = << >>
                    THEN << [row |-> r, dmag |-> 0] >>
                    ELSE [i \in DOMAIN hits |->
                             [row |-> r, dmag |-> Dmag(hits[i], band)]]
         IN  out \o MergeZp(Tail(df), band)

\* round(x, 4) of a magnitude: to the nearest multiple of 10 units, a tie to
\* the even one; None stays None
Round4(x) ==
    IF x = NULL THEN NULL
    ELSE LET q == x \div 10
             r == x % 10
         IN  IF r < 5 \/ (r = 5 /\ q % 2 = 0) THEN 10 * q ELSE 10 * (q + 1)

\* the rows _save_raw_observations inserts for one band
RawRowsOfBand(df, source_id, band) ==
    LET merged == MergeZp(DropNa(df, band), band)
    IN  [i \in DOMAIN merged |->
            [source_id |-> source_id, mjd |-> merged[i].row.mjd, band |-> band,
             mpro |-> Round4(Mag(merged[i].row, band)),
             scan_id |-> merged[i].row.scan_id,
             mpro_corrected |->
                 Round4(Mag(merged[i].row, band) - merged[i].dmag)]
                @@ BandCols(merged[i].row, band)]

RawRows(df, source_id) ==
    RawRowsOfBand(df, source_id, "W1") \o RawRowsOfBand(df, source_id, "W2")

\* no predicate applied
DefaultFilterOff(df, band) == df

\* the ten conjoined default predicates of the band
DefaultFilter(df, band) ==
    LET Keep(r) == Quality(r, band) IN SelectSeq(df, Keep)

\* table_filtered[mag_col] -= table_filtered[dmag_col].fillna(0)
ZpCorrect(df, band) ==
    LET merged == MergeZp(df, band)
    IN  [i \in DOMAIN merged |->
            [mjd |-> merged[i].row.mjd,
             mag |-> Mag(merged[i].row, band) - merged[i].dmag,
             flux |-> merged[i].row.flux, ferr |-> merged[i].row.ferr]]

\* 3-sigma clipping on the corrected magnitudes: with n rows, sum S and sum of
\* squares Q, (mag - mean)^2 <= 9 std^2 is
\* (n mag - S)^2 (n - 1) <= 9 n (n Q - S^2); std is NaN for n = 1.
SigmaClip(df) ==
    LET n == Len(df)
        S == SumSeq([i \in DOMAIN df |-> df[i].mag])
        Q == SumSeq([i \in DOMAIN df |-> df[i].mag * df[i].mag])
        Keep(r) == (n * r.mag - S) * (n * r.mag - S) * (n - 1)
                       <= 9 * n * (n * Q - S * S)
    IN  IF n <= 1 \/ n * Q - S * S = 0 THEN df ELSE SelectSeq(df, Keep)

\* (table_3sigma['mjd'].diff() >= 100).cumsum()
RECURSIVE EpochIds(_)
EpochIds(df) ==
    IF df = << >> THEN << >>
    ELSE IF Len(df) = 1 THEN << 0 >>
    ELSE LET front == SubSeq(df, 1, Len(df) - 1)
             ids == EpochIds(front)
             step == IF df[Len(df)].mjd - df[Len(df) - 1].mjd >= EpochGap
                     THEN 1 ELSE 0
         IN  Append(ids, ids[Len(ids)] + step)

RowsOfEpoch(df, ids, e) ==
    LET idx == SelectSeq([i \in DOMAIN df |-> i], LAMBDA i : ids[i] = e)
    IN  [k \in DOMAIN idx |-> df[idx[k]]]

\* a flux or flux_error is infinite in the rows (the sum is, then)
HasInf(rows, flux) ==
    \E i \in DOMAIN rows : (IF flux THEN rows[i].flux ELSE rows[i].ferr) = Inf

\* (x**2).sum() of the flux errors: the sum of a pandas Series skips NaN
SqSum(rows) ==
    SumSeq([i \in DOMAIN rows |->
               IF rows[i].ferr = NULL THEN 0 ELSE rows[i].ferr * rows[i].ferr])

\* snr = flux_sum / sqrt(flux_error_sq_sum) >= k, on integers; inf / inf is
\* NaN and compares false, inf / finite is inf, finite / inf is 0
SnrAtLeast(rows, k) ==
    LET flux_sum == SumSeq([i \in DOMAIN rows |-> rows[i].flux])
        flux_error_sq_sum == SqSum(rows)
    IN  IF HasInf(rows, FALSE) THEN FALSE
        ELSE IF HasInf(rows, TRUE) THEN TRUE
        ELSE flux_sum * flux_sum >= k * k * flux_error_sq_sum

\* -2.5 * np.log10((flux_mean - sqrt(flux_error_sq_sum) / n) / flux_mean) by
\* its kind: the ratio is 1 - sqrt(flux_error_sq_sum) / flux_sum; log10 of a
\* negative number, of NaN (inf / inf, 0 / 0) is NaN, log10(0) is -inf
MagLim(rows) ==
    LET flux_sum == SumSeq([i \in DOMAIN rows |-> rows[i].flux])
        flux_error_sq_sum == SqSum(rows)
    IN  IF HasInf(rows, TRUE) \/ HasInf(rows, FALSE) \/ flux_sum = 0
        THEN "nan"
        ELSE IF flux_sum * flux_sum > flux_error_sq_sum THEN "finite"
        ELSE IF flux_sum * flux_sum = flux_error_sq_sum THEN "inf"
        ELSE "nan"

\* round(row['mag_lim'], 4) whatever the value
MagLimRoundedUnguarded(mag_lim) == mag_lim

\* round(row['mag_lim'], 4) if pd.notna(row['mag_lim']) and not
\* np.isnan(row['mag_lim']) else None; an infinity is not NA and rounds to
\* itself
MagLimRounded(mag_lim) == IF mag_lim = "nan" THEN "null" ELSE mag_lim

\* the selection without the first threshold
GoodEpochIdsLow(df, ids) ==
    {e \in Range(ids) : SnrAtLeast(RowsOfEpoch(df, ids, e), SnrLow)}

\* epoch_stats[epoch_stats['snr'] >= 300].index, or, when that is empty,
\* epoch_stats[epoch_stats['snr'] >= 10].index
GoodEpochIds(df, ids) ==
    LET all == Range(ids)
        high == {e \in all : SnrAtLeast(RowsOfEpoch(df, ids, e), SnrHigh)}
        low == {e \in all : SnrAtLeast(RowsOfEpoch(df, ids, e), SnrLow)}
    IN  IF high # {} THEN high ELSE low

\* np.std(x, ddof=1) / np.sqrt(len(x)) without the guard: NaN for one value
StdErrorUnguarded(x) ==
    LET n == Len(x)
        S == SumSeq(x)
        Q == SumSeq([i \in DOMAIN x |-> x[i] * x[i]])
    IN  IF n > 1 THEN n * Q - S * S ELSE NULL

\* std_error: np.std(x, ddof=1) / np.sqrt(len(x)) if len(x) > 1 else 0.0,
\* given by its square times n^2 (n - 1), that is n Q - S^2 for n values of
\* sum S and sum of squares Q
StdError(x) ==
    LET n == Len(x)
        S == SumSeq(x)
        Q == SumSeq([i \in DOMAIN x |-> x[i] * x[i]])
    IN  IF n > 1 THEN n * Q - S * S ELSE 0

\* the EpochSummary rows _process_band_with_default_filter inserts
EpochRows(table_df, band, source_id) ==
    LET table_band == DropNa(table_df, band)
        table_filtered == DefaultFilter(table_band, band)
        table_3sigma == SigmaClip(ZpCorrect(table_filtered, band))
        ids == EpochIds(table_3sigma)
        good == GoodEpochIds(table_3sigma, ids)
        magnitude(e) ==
            LET good_data == RowsOfEpoch(table_3sigma, ids, e)
            IN  [i \in DOMAIN good_data |-> good_data[i].mag]
    IN  {[source_id |-> source_id, band |-> band, epoch_id |-> e,
          mag_se |-> StdError(magnitude(e)),
          mag_lim |-> MagLimRounded(MagLim(RowsOfEpoch(table_3sigma, ids, e))),
          n_points |-> Len(magnitude(e))] : e \in good}

\* raw_df['allwise_cntr'].value_counts().idxmax(): the most frequent value,
\* the one met first among equally frequent ones
Count(df, c) == Cardinality({i \in DOMAIN df : df[i].allwise_cntr = c})

MostFrequent(df) ==
    LET first(c) == Min({i \in DOMAIN df : df[i].allwise_cntr = c})
        cs == {df[i].allwise_cntr : i \in DOMAIN df}
    IN  CHOOSE c \in cs :
            \A d \in cs : Count(df, c) > Count(df, d)
                          \/ /\ Count(df, c) = Count(df, d)
                             /\ first(c) <= first(d)

Cntrs(df) == {df[i].allwise_cntr : i \in DOMAIN df}

\* if len(set(raw_df['allwise_cntr'])) != 1: keep the most frequent
KeepMostFrequent(df) ==
    IF Cardinality(Cntrs(df)) # 1
    THEN LET mf == MostFrequent(df)
             Keep(r) == r.allwise_cntr = mf
         IN  SelectSeq(df, Keep)
    ELSE df

(***************************************************************************)
(* Retry backoff, in tenths of a second.  `k` is the 1-indexed number of   *)
(* the attempt that failed.                                                *)
(***************************************************************************)
\* sleep_time = (2 ** (attempt - 1)) + (0.1 * (attempt))
TsSleepTime(k) == 10 * 2 ^ (k - 1) + k

\* wait_time = 2 ** attempt, attempt = k - 1 counted from 0
PsSleepTime(k) == 10 * 2 ^ (k - 1)

(***************************************************************************)
(* State                                                                   *)
(***************************************************************************)
VARIABLES
    source_list,      \* the futures of the run (source_id = index)
    catalog,          \* per source: the rows the remote catalog holds
    remote_faults,    \* remote calls that may still raise
    path,             \* per source: "ts", "cone" or "tap"
    num_workers,      \* ThreadPoolExecutor(max_workers=num_workers)
    pc,               \* per worker: where it stands
    attempt,          \* per worker: 1-indexed attempt number
    raw_df,           \* per worker: the fetched table
    result,           \* per worker: the returned (source_id, success, msg)
    calls,            \* per worker: remote calls made
    sleeps,           \* per worker: the backoff sleeps taken
    failures,         \* per worker: remote calls that raised
    last_raised,      \* per worker: its last remote call raised
    query_semaphore,  \* permits left
    permit,           \* per worker: holds a permit
    db_lock,          \* holder of db_lock, 0 when free
    sqlite_lock,      \* connection holding SQLite's writer lock, 0 when free
    db,               \* committed rows
    txn,              \* per connection: rows inserted and not yet committed
    collected,        \* futures the driver has consumed
    success_count,
    error_count,
    coords,           \* per source: the ra and dec of its source list row
    run,              \* invocations of the script with --sources so far
    db_exists,        \* Path(db_path).exists()
    clear_result,     \* what each clear_database call returned, and when
    store_at_clear,   \* the committed rows when clear_database was last called
    args,             \* main: the parsed command line (--use-tap, --parallel)
    sources_df,       \* main: the CSV source list (its AllWISE_ID column)
    dispatched,       \* per CSV row: the fetch function called for its item
    request,          \* the request the Query Service got
    response,         \* what its handler computed and returned
    fault_kinds,      \* the classes of error a remote call may raise
    cancel,           \* the main thread got KeyboardInterrupt
    at_cancel,        \* per worker: where it stood and the calls it had made
                      \* when the main thread got it
    fatal,            \* per worker: calls made and sleeps taken when a
                      \* remote call first raised a permanent error
    summary,          \* the lines of "=== Summary ===" printed so far
    exit_status       \* "running", "0", or the exception that ended the script

\* the invocations of the script on one database file
runVars == <<run, db_exists, clear_result, store_at_clear>>

\* main, from the command line to the fetch function of each item
mainVars == <<args, sources_df, dispatched>>

\* the backend: a GET request and its response
queryVars == <<request, response>>

\* the classes of remote error of the run and the interrupt of the main
\* thread, which no worker reads
retryVars == <<fault_kinds, cancel, at_cancel>>

\* the end of the script
exitVars == <<summary, exit_status>>

\* what no step of a worker, of the driver or of the store touches
frontVars == <<mainVars, queryVars, retryVars, exitVars>>

cfgVars ==
    <<source_list, catalog, path, num_workers, coords, runVars, frontVars>>

workerVars ==
    <<pc, attempt, raw_df, result, calls, sleeps, failures, last_raised,
      fatal>>

\* what only the remote calls change
envVars == <<remote_faults, failures, last_raised, fatal>>

semVars == <<query_semaphore, permit>>

dbVars == <<db_lock, sqlite_lock, db, txn>>

driverVars == <<collected, success_count, error_count>>

vars == <<cfgVars, remote_faults, workerVars, semVars, dbVars, driverVars>>

EmptyTxn == [sources |-> {}, raw |-> EmptyBag, epoch |-> EmptyBag]

NoResult == [success |-> FALSE, msg |-> "none"]

Outcome(ok, msg) == [success |-> ok, msg |-> msg]

\* str(e) of the exception the k-th remote call of a worker raised
RemoteError(k) ==
    <<"remote error 1", "remote error 2", "remote error 3",
      "remote error 4">>[k]

SqliteError == "database is locked"

ValueError == "cannot convert float NaN to integer"

\* no remote call of the worker raised a permanent error
NoFatal == [calls |-> 0, sleeps |-> 0]

\* the futures of a run are queued, the database file is created
InitRunAt(n, catalogs, paths, workers, faults, positions) ==
    /\ source_list = 1..n
    /\ catalog \in catalogs
    /\ remote_faults = faults
    /\ path \in paths
    /\ num_workers \in workers
    /\ pc = [t \in 1..n |-> "queued"]
    /\ attempt = [t \in 1..n |-> 0]
    /\ raw_df = [t \in 1..n |-> << >>]
    /\ result = [t \in 1..n |-> NoResult]
    /\ calls = [t \in 1..n |-> 0]
    /\ sleeps = [t \in 1..n |-> << >>]
    /\ failures = [t \in 1..n |-> 0]
    /\ fatal = [t \in 1..n |-> NoFatal]
    /\ last_raised = [t \in 1..n |-> FALSE]
    /\ query_semaphore = MAX_CONCURRENT_QUERIES
    /\ permit = [t \in 1..n |-> FALSE]
    /\ db_lock = 0
    /\ sqlite_lock = 0
    /\ db = EmptyTxn
    /\ txn = [t \in 1..n |-> EmptyTxn]
    /\ collected = {}
    /\ success_count = 0
    /\ error_count = 0
    /\ coords \in positions
    /\ run = 1
    /\ db_exists = TRUE
    /\ clear_result = << >>
    /\ store_at_clear = EmptyTxn

InitRun(n, catalogs, paths, workers, faults) ==
    InitRunAt(n, catalogs, paths, workers, faults,
              {[t \in 1..n |-> [ra |-> 1, dec |-> 1]]})

\* pandas' missing value and Python's None, as strings
NaN == "NaN"

None == "None"

\* no command line and no CSV: the source list is handed to
\* batch_process_sources_parallel as it is
InitMainIdle ==
    /\ args = [use_tap |-> FALSE, parallel |-> FALSE]
    /\ sources_df = [has_allwise_id |-> FALSE, AllWISE_ID |-> << >>]
    /\ dispatched = << >>

Toggles ==
    {"cc_flags", "sso_flg", "qi_fact", "saa_sep", "ph_qual", "moon_masked",
     "sat", "rchi2", "qual_frame", "sky", "zp_correction", "sigma_clipping"}

\* the defaults of the apply_* query parameters
DefaultApply == [p \in Toggles |-> TRUE]

\* source_id 0: the request has no source_id
NoRequest ==
    [service |-> "none", endpoint |-> "none", source_id |-> 0,
     band |-> "none", ra |-> 0, dec |-> 0, apply |-> DefaultApply]

NoResponse == [status |-> 0]

\* no request was made
InitQueryIdle ==
    /\ request = NoRequest
    /\ response = NoResponse

\* every remote error is of the transient class and nobody interrupts; the
\* script is running
InitRetryPlain ==
    /\ fault_kinds = {"transient"}
    /\ cancel = FALSE
    /\ at_cancel = << >>
    /\ summary = << >>
    /\ exit_status = "running"

InitWith(n, catalogs, paths, workers, faults) ==
    /\ InitRun(n, catalogs, paths, workers, faults)
    /\ InitMainIdle
    /\ InitQueryIdle
    /\ InitRetryPlain

\* a run uses one script: every worker is get_neowise_threadsafe, or every
\* worker is _process_single_source (cone or identifier search per item)
RunPaths(n) ==
    {[t \in 1..n |-> "ts"]} \cup [1..n -> {"cone", "tap"}]

\* the first source's catalog ranges over every table; the other sources are
\* plain ingests that contend with it for the database
RunCatalogs(n) ==
    {c \in [1..n -> Tables] : \A t \in 2..n : c[t] = TableGood}

Init ==
    InitWith(NumSources, RunCatalogs(NumSources), RunPaths(NumSources),
             {1, NumSources}, MaxRemoteFaults)

(***************************************************************************)
(* Shared pieces of the worker steps                                       *)
(***************************************************************************)
Running == {t \in source_list : pc[t] \notin {"queued", "done", "raised"}}

\* every future of the run is done
Returned == \A t \in source_list : pc[t] \in {"done", "raised"}

InRemoteCall(t) == pc[t] \in {"ts_call", "cone_call", "tap_call"}

\* the worker's next step executes an INSERT or a commit
WritePcs ==
    {"ts_ins_source", "ts_save", "cone_ins_source", "cone_save_raw",
     "cone_epochs", "tap_ins_source", "tap_save_raw", "tap_epochs"}

PsWritePcs == WritePcs \ {"ts_ins_source", "ts_save"}

LockPcs == {"ts_lock1", "ts_lock2", "tap_lock1", "tap_lock2", "tap_lock3"}

AfterLock(p) ==
    CASE p = "ts_lock1" -> "ts_ins_source"
      [] p = "ts_lock2" -> "ts_save"
      [] p = "tap_lock1" -> "tap_ins_source"
      [] p = "tap_lock2" -> "tap_save_raw"
      [] p = "tap_lock3" -> "tap_epochs"

\* the remote call of worker t raises an error of the given class: the first
\* permanent one is remembered with the calls made (this one included) and
\* the sleeps taken so far
RaisedKind(t, kind) ==
    IF kind = "permanent" /\ fatal[t] = NoFatal
    THEN [fatal EXCEPT ![t] = [calls |-> calls[t] + 1,
                               sleeps |-> Len(sleeps[t])]]
    ELSE fatal

\* a semaphore that never blocks
CanAcquireUnbounded == TRUE

\* query_semaphore.acquire() returns
CanAcquire == query_semaphore > 0

\* int(allwise_cntr) succeeds
HasCntr(t) == raw_df[t][1].allwise_cntr # NULL

\* SQLite lets one connection write at a time; a second writer waits
CanWrite(t) == sqlite_lock \in {0, t}

\* the permit is dropped without the semaphore being released
ReleaseLost(t) ==
    /\ query_semaphore' = query_semaphore
    /\ permit' = [permit EXCEPT ![t] = FALSE]

\* leaving `with query_semaphore:`
Release(t) ==
    /\ query_semaphore' = query_semaphore + 1
    /\ permit' = [permit EXCEPT ![t] = FALSE]

\* return (source_id, ok, msg)
Return(t, ok, msg) ==
    /\ result' = [result EXCEPT ![t] = Outcome(ok, msg)]
    /\ pc' = [pc EXCEPT ![t] = "done"]

Goto(t, p) == pc' = [pc EXCEPT ![t] = p]

\* a plain INSERT into a table without the UNIQUE constraint on source_id
SourceRowsInsert(t, cntr) ==
    {[source_id |-> t, ra |-> coords[t].ra, dec |-> coords[t].dec,
      allwise_cntr |-> cntr]}

\* INSERT OR IGNORE INTO sources, seen through connection t
SourceRows(t, cntr) ==
    IF \E r \in db.sources \cup txn[t].sources : r.source_id = t
    THEN {}
    ELSE {[source_id |-> t, ra |-> coords[t].ra, dec |-> coords[t].dec,
           allwise_cntr |-> cntr]}

\* the rows _save_raw_observations and _process_band_with_default_filter
\* (W1, then W2) insert, tabulated for the tables a worker can hold after
\* the cutoff
WrittenTables ==
    {MjdCutoff(SortMjd(x)) : x \in StoreTables \cup QueryTables}
        \cup {MjdCutoff(KeepMostFrequent(SortMjd(x))) : x \in StoreTables}

SourceIds ==
    1..(IF NumSources > NumPoolWorkers THEN NumSources ELSE NumPoolWorkers)

SavedRows ==
    [df \in WrittenTables, t \in SourceIds |->
        [raw |-> SeqToBag(RawRows(df, t)),
         epoch |-> SetToBag(EpochRows(df, "W1", t)
                                \cup EpochRows(df, "W2", t))]]

RawBag(df, t) == SavedRows[df, t].raw

EpochBag(df, t) == SavedRows[df, t].epoch

\* conn.commit() after the rows `more` were inserted in the open transaction
Committed(t, more) ==
    [sources |-> db.sources \cup txn[t].sources \cup more.sources,
     raw |-> db.raw (+) txn[t].raw (+) more.raw,
     epoch |-> db.epoch (+) txn[t].epoch (+) more.epoch]

\* the connection's transaction ends and gives the writer lock back:
\* conn.commit() (its rows are in Committed), or conn.close(), which rolls
\* it back
EndTxn(t) ==
    /\ txn' = [txn EXCEPT ![t] = EmptyTxn]
    /\ sqlite_lock' = IF sqlite_lock = t THEN 0 ELSE sqlite_lock

(***************************************************************************)
(* The pool: a free thread takes the next queued future                    *)
(***************************************************************************)
Start(t) ==
    /\ pc[t] = "queued"
    /\ \A u \in source_list : u < t => pc[u] # "queued"
    /\ Cardinality(Running) < num_workers
    /\ Goto(t, "acquire")
    /\ attempt' = [attempt EXCEPT ![t] = 1]
    /\ UNCHANGED <<cfgVars, envVars, raw_df, result, calls, sleeps, semVars,
                   dbVars, driverVars>>

\* sqlite3.connect raises: the exception leaves the worker function
StartRaises(t) ==
    /\ pc[t] = "queued"
    /\ \A u \in source_list : u < t => pc[u] # "queued"
    /\ Cardinality(Running) < num_workers
    /\ Goto(t, "raised")
    /\ UNCHANGED <<cfgVars, envVars, attempt, raw_df, result, calls, sleeps,
                   semVars, dbVars, driverVars>>

\* with query_semaphore:
Acquire(t) ==
    /\ pc[t] = "acquire"
    /\ CanAcquire
    /\ query_semaphore' = query_semaphore - 1
    /\ permit' = [permit EXCEPT ![t] = TRUE]
    /\ Goto(t, CASE path[t] = "ts" -> "ts_call"
                 [] path[t] = "cone" -> "cone_call"
                 [] path[t] = "tap" -> "tap_call")
    /\ UNCHANGED <<cfgVars, envVars, attempt, raw_df, result, calls, sleeps,
                   dbVars, driverVars>>

\* time.sleep returns; the next attempt starts
Wake(t) ==
    /\ pc[t] = "sleep"
    /\ Goto(t, "acquire")
    /\ attempt' = [attempt EXCEPT ![t] = @ + 1]
    /\ UNCHANGED <<cfgVars, envVars, raw_df, result, calls, sleeps, semVars,
                   dbVars, driverVars>>

\* with db_lock:
AcquireDbLock(t) ==
    /\ pc[t] \in LockPcs
    /\ db_lock = 0
    /\ db_lock' = t
    /\ Goto(t, AfterLock(pc[t]))
    /\ UNCHANGED <<cfgVars, envVars, attempt, raw_df, result, calls, sleeps,
                   semVars, sqlite_lock, db, txn, driverVars>>

(***************************************************************************)
(* get_neowise_threadsafe                                                  *)
(***************************************************************************)
\* Irsa.query_region raises inside `with query_semaphore:`
TsQueryRaises(t) ==
    /\ pc[t] = "ts_call"
    /\ remote_faults > 0
    /\ remote_faults' = remote_faults - 1
    /\ failures' = [failures EXCEPT ![t] = @ + 1]
    /\ \E kind \in fault_kinds : fatal' = RaisedKind(t, kind)
    /\ last_raised' = [last_raised EXCEPT ![t] = TRUE]
    /\ calls' = [calls EXCEPT ![t] = @ + 1]
    /\ Release(t)
    /\ IF attempt[t] >= max_attempts
       THEN /\ Return(t, FALSE, RemoteError(attempt[t]))
            /\ UNCHANGED sleeps
       ELSE /\ sleeps' = [sleeps EXCEPT
                            ![t] = Append(@, TsSleepTime(attempt[t]))]
            /\ Goto(t, "sleep")
            /\ UNCHANGED result
    /\ UNCHANGED <<cfgVars, attempt, raw_df, dbVars, driverVars>>

\* Irsa.query_region returns a table
TsQueryReturns(t) ==
    /\ pc[t] = "ts_call"
    /\ raw_df' = [raw_df EXCEPT ![t] = catalog[t]]
    /\ calls' = [calls EXCEPT ![t] = @ + 1]
    /\ last_raised' = [last_raised EXCEPT ![t] = FALSE]
    /\ UNCHANGED <<failures, fatal>>
    /\ Release(t)
    /\ Goto(t, "ts_parse")
    /\ UNCHANGED <<cfgVars, remote_faults, attempt, result, sleeps, dbVars,
                   driverVars>>

\* table.sort / astype / to_pandas raises
TsParseFails(t) ==
    /\ pc[t] = "ts_parse"
    /\ Return(t, FALSE, "parse failed")
    /\ UNCHANGED <<cfgVars, envVars, attempt, raw_df, calls, sleeps, semVars,
                   dbVars, driverVars>>

TsParse(t) ==
    /\ pc[t] = "ts_parse"
    /\ IF raw_df[t] = << >>
       THEN /\ Return(t, FALSE, "No valid data")
            /\ UNCHANGED raw_df
       ELSE /\ raw_df' = [raw_df EXCEPT ![t] = KeepMostFrequent(SortMjd(@))]
            /\ Goto(t, "ts_lock1")
            /\ UNCHANGED result
    /\ UNCHANGED <<cfgVars, envVars, attempt, calls, sleeps, semVars, dbVars,
                   driverVars>>

\* with db_lock: INSERT OR IGNORE INTO sources; conn.commit()
\* then the MJD cutoff
TsInsertSource(t) ==
    /\ pc[t] = "ts_ins_source"
    /\ HasCntr(t)
    /\ CanWrite(t)
    /\ db' = Committed(t, [EmptyTxn EXCEPT
                 !.sources = SourceRows(t, raw_df[t][1].allwise_cntr)])
    /\ db_lock' = 0
    /\ EndTxn(t)
    /\ LET cut == MjdCutoff(raw_df[t])
       IN  /\ raw_df' = [raw_df EXCEPT ![t] = cut]
           /\ IF cut = << >>
              THEN Return(t, FALSE, "No data after MJD filtering")
              ELSE Goto(t, "ts_lock2") /\ UNCHANGED result
    /\ UNCHANGED <<cfgVars, envVars, attempt, calls, sleeps, semVars,
                   driverVars>>

\* with db_lock: save_raw_observations; process_band_and_save_epochs W1, W2;
\* conn.commit()
TsSave(t) ==
    /\ pc[t] = "ts_save"
    /\ CanWrite(t)
    /\ db' = Committed(t, [sources |-> {},
                           raw |-> RawBag(raw_df[t], t),
                           epoch |-> EpochBag(raw_df[t], t)])
    /\ db_lock' = 0
    /\ EndTxn(t)
    /\ Return(t, TRUE, "Success")
    /\ UNCHANGED <<cfgVars, envVars, attempt, raw_df, calls, sleeps, semVars,
                   driverVars>>

\* a statement of either `with db_lock:` block raises (int(allwise_cntr) of a
\* null, the busy timeout): except Exception -> conn.close();
\* return (source_id, False, str(e))
TsProcessingRaises(t) ==
    /\ \/ pc[t] = "ts_ins_source" /\ ~HasCntr(t)
       \/ pc[t] \in {"ts_ins_source", "ts_save"} /\ ~CanWrite(t)
    /\ db_lock' = 0
    /\ EndTxn(t)
    /\ Return(t, FALSE, IF CanWrite(t) THEN ValueError ELSE SqliteError)
    /\ UNCHANGED <<cfgVars, envVars, attempt, raw_df, calls, sleeps, semVars,
                   db, driverVars>>

(***************************************************************************)
(* _process_single_source: the fetch function runs inside                  *)
(* `with query_semaphore:`; what it returns or raises decides the outcome  *)
(***************************************************************************)
\* the fetch function returned (w1_result, w2_result): the permit is
\* released, conn.close(), success iff one of the frames is not empty
PsReturns(t, epochs_found) ==
    /\ Release(t)
    /\ IF epochs_found
       THEN Return(t, TRUE, "Success")
       ELSE Return(t, FALSE, "No valid data")

\* the permit acquired by hand and released on the normal return only: the
\* exception leaves the fetch function with the permit still taken
PsRaisesKeepsPermit(t, e) ==
    /\ UNCHANGED semVars
    /\ db_lock' = IF db_lock = t THEN 0 ELSE db_lock
    /\ IF attempt[t] < max_attempts
       THEN /\ sleeps' = [sleeps EXCEPT
                            ![t] = Append(@, PsSleepTime(attempt[t]))]
            /\ Goto(t, "sleep")
            /\ UNCHANGED <<result, txn, sqlite_lock>>
       ELSE /\ EndTxn(t)
            /\ Return(t, FALSE, e)
            /\ UNCHANGED sleeps

\* an exception left the fetch function: except Exception at the retry loop
PsRaises(t, e) ==
    /\ Release(t)
    /\ db_lock' = IF db_lock = t THEN 0 ELSE db_lock
    /\ IF attempt[t] < max_attempts
       THEN /\ sleeps' = [sleeps EXCEPT
                            ![t] = Append(@, PsSleepTime(attempt[t]))]
            /\ Goto(t, "sleep")
            /\ UNCHANGED <<result, txn, sqlite_lock>>
       ELSE /\ EndTxn(t)
            /\ Return(t, FALSE, e)
            /\ UNCHANGED sleeps

(***************************************************************************)
(* get_neowise_raw_data (cone search)                                      *)
(***************************************************************************)
\* Irsa.query_region, table.sort or to_pandas raises: caught inside the fetch
\* function, which returns two empty frames
ConeQueryRaises(t) ==
    /\ pc[t] = "cone_call"
    /\ remote_faults > 0
    /\ remote_faults' = remote_faults - 1
    /\ failures' = [failures EXCEPT ![t] = @ + 1]
    /\ \E kind \in fault_kinds : fatal' = RaisedKind(t, kind)
    /\ last_raised' = [last_raised EXCEPT ![t] = TRUE]
    /\ calls' = [calls EXCEPT ![t] = @ + 1]
    /\ PsReturns(t, FALSE)
    /\ EndTxn(t)
    /\ UNCHANGED <<cfgVars, attempt, raw_df, sleeps, db_lock, db, driverVars>>

\* the query returns: an empty table or several allwise_cntr values give two
\* empty frames
ConeQueryReturns(t) ==
    /\ pc[t] = "cone_call"
    /\ calls' = [calls EXCEPT ![t] = @ + 1]
    /\ last_raised' = [last_raised EXCEPT ![t] = FALSE]
    /\ UNCHANGED <<failures, fatal>>
    /\ LET tbl == SortMjd(catalog[t]) IN
          /\ raw_df' = [raw_df EXCEPT ![t] = tbl]
          /\ IF tbl = << >> \/ Cardinality(Cntrs(tbl)) # 1
             THEN PsReturns(t, FALSE) /\ EndTxn(t)
             ELSE /\ Goto(t, "cone_ins_source")
                  /\ UNCHANGED <<result, semVars, txn, sqlite_lock>>
    /\ UNCHANGED <<cfgVars, remote_faults, attempt, sleeps, db_lock, db,
                   driverVars>>

\* INSERT OR IGNORE INTO sources (no commit), then the MJD cutoff; when no row
\* is left the function returns and conn.close() rolls the insert back
ConeInsertSource(t) ==
    /\ pc[t] = "cone_ins_source"
    /\ HasCntr(t)
    /\ CanWrite(t)
    /\ LET cut == MjdCutoff(raw_df[t])
       IN  /\ raw_df' = [raw_df EXCEPT ![t] = cut]
           /\ IF cut = << >>
              THEN PsReturns(t, FALSE) /\ EndTxn(t)
              ELSE /\ txn' = [txn EXCEPT ![t].sources =
                          @ \cup SourceRows(t, raw_df[t][1].allwise_cntr)]
                   /\ sqlite_lock' = t
                   /\ Goto(t, "cone_save_raw")
                   /\ UNCHANGED <<result, semVars>>
    /\ UNCHANGED <<cfgVars, envVars, attempt, calls, sleeps, db_lock, db,
                   driverVars>>

\* _save_raw_observations; conn.commit()
ConeSaveRaw(t) ==
    /\ pc[t] = "cone_save_raw"
    /\ CanWrite(t)
    /\ db' = Committed(t, [EmptyTxn EXCEPT
                              !.raw = RawBag(raw_df[t], t)])
    /\ EndTxn(t)
    /\ Goto(t, "cone_epochs")
    /\ UNCHANGED <<cfgVars, envVars, attempt, raw_df, result, calls, sleeps,
                   semVars, db_lock, driverVars>>

\* _process_band_with_default_filter W1, W2; conn.commit(); return
ConeEpochs(t) ==
    /\ pc[t] = "cone_epochs"
    /\ LET rows == EpochBag(raw_df[t], t)
       IN  /\ rows = EmptyBag \/ CanWrite(t)
           /\ db' = Committed(t, [EmptyTxn EXCEPT !.epoch = rows])
           /\ PsReturns(t, rows # EmptyBag)
    /\ EndTxn(t)
    /\ UNCHANGED <<cfgVars, envVars, attempt, raw_df, calls, sleeps, db_lock,
                   driverVars>>

(***************************************************************************)
(* get_neowise_by_allwise_tap (identifier search)                          *)
(***************************************************************************)
\* Irsa.query_tap raises: fall back to get_neowise_raw_data
TapQueryRaises(t) ==
    /\ pc[t] = "tap_call"
    /\ remote_faults > 0
    /\ remote_faults' = remote_faults - 1
    /\ failures' = [failures EXCEPT ![t] = @ + 1]
    /\ \E kind \in fault_kinds : fatal' = RaisedKind(t, kind)
    /\ last_raised' = [last_raised EXCEPT ![t] = TRUE]
    /\ calls' = [calls EXCEPT ![t] = @ + 1]
    /\ Goto(t, "cone_call")
    /\ UNCHANGED <<cfgVars, attempt, raw_df, result, sleeps, semVars, dbVars,
                   driverVars>>

TapQueryReturns(t) ==
    /\ pc[t] = "tap_call"
    /\ calls' = [calls EXCEPT ![t] = @ + 1]
    /\ last_raised' = [last_raised EXCEPT ![t] = FALSE]
    /\ UNCHANGED <<failures, fatal>>
    /\ LET tbl == SortMjd(catalog[t]) IN
          /\ raw_df' = [raw_df EXCEPT ![t] = tbl]
          /\ IF tbl = << >>
             THEN PsReturns(t, FALSE) /\ EndTxn(t)
             ELSE /\ Goto(t, "tap_lock1")
                  /\ UNCHANGED <<result, semVars, txn, sqlite_lock>>
    /\ UNCHANGED <<cfgVars, remote_faults, attempt, sleeps, db_lock, db,
                   driverVars>>

\* with db_lock: INSERT OR IGNORE INTO sources (no commit); the MJD cutoff
TapInsertSource(t) ==
    /\ pc[t] = "tap_ins_source"
    /\ HasCntr(t)
    /\ CanWrite(t)
    /\ db_lock' = 0
    /\ LET cut == MjdCutoff(raw_df[t])
       IN  /\ raw_df' = [raw_df EXCEPT ![t] = cut]
           /\ IF cut = << >>
              THEN PsReturns(t, FALSE) /\ EndTxn(t)
              ELSE /\ txn' = [txn EXCEPT ![t].sources =
                          @ \cup SourceRows(t, raw_df[t][1].allwise_cntr)]
                   /\ sqlite_lock' = t
                   /\ Goto(t, "tap_lock2")
                   /\ UNCHANGED <<result, semVars>>
    /\ UNCHANGED <<cfgVars, envVars, attempt, calls, sleeps, db, driverVars>>

\* with db_lock: _save_raw_observations; conn.commit()
TapSaveRaw(t) ==
    /\ pc[t] = "tap_save_raw"
    /\ CanWrite(t)
    /\ db' = Committed(t, [EmptyTxn EXCEPT
                              !.raw = RawBag(raw_df[t], t)])
    /\ EndTxn(t)
    /\ db_lock' = 0
    /\ Goto(t, "tap_lock3")
    /\ UNCHANGED <<cfgVars, envVars, attempt, raw_df, result, calls, sleeps,
                   semVars, driverVars>>

\* with db_lock: _process_band_with_default_filter W1, W2; conn.commit()
TapEpochs(t) ==
    /\ pc[t] = "tap_epochs"
    /\ LET rows == EpochBag(raw_df[t], t)
       IN  /\ rows = EmptyBag \/ CanWrite(t)
           /\ db' = Committed(t, [EmptyTxn EXCEPT !.epoch = rows])
           /\ PsReturns(t, rows # EmptyBag)
    /\ EndTxn(t)
    /\ db_lock' = 0
    /\ UNCHANGED <<cfgVars, envVars, attempt, raw_df, calls, sleeps,
                   driverVars>>

\* a write statement of the fetch function raises sqlite3.OperationalError:
\* another connection kept the writer lock for the 10 s busy timeout (the
\* epoch step writes only when it has rows to insert)
PsBusyTimeout(t) ==
    /\ pc[t] \in PsWritePcs
    /\ pc[t] \in {"cone_epochs", "tap_epochs"} =>
           EpochBag(raw_df[t], t) # EmptyBag
    /\ ~CanWrite(t)
    /\ PsRaises(t, SqliteError)
    /\ UNCHANGED <<cfgVars, envVars, attempt, raw_df, calls, db, driverVars>>

\* int(allwise_cntr) of a null raises ValueError
PsValueError(t) ==
    /\ pc[t] \in {"cone_ins_source", "tap_ins_source"}
    /\ ~HasCntr(t)
    /\ PsRaises(t, ValueError)
    /\ UNCHANGED <<cfgVars, envVars, attempt, raw_df, calls, db, driverVars>>

(***************************************************************************)
(* The driver: for future in as_completed(futures)                         *)
(***************************************************************************)
IsPrototypeRun == \E t \in source_list : path[t] # "ts"

\* future.result() outside a try: the loop consumes returned outcomes only
CollectReturnedOnly(t) ==
    /\ pc[t] = "done"
    /\ t \notin collected
    /\ collected' = collected \cup {t}
    /\ IF IsPrototypeRun
       THEN IF result[t].success
            THEN success_count' = success_count + 1 /\ UNCHANGED error_count
            ELSE error_count' = error_count + 1 /\ UNCHANGED success_count
       ELSE UNCHANGED <<success_count, error_count>>
    /\ UNCHANGED <<cfgVars, envVars, workerVars, semVars, dbVars>>

\* sid, success, msg = future.result() in try/except: a returned outcome or
\* the worker's exception, each future once
Collect(t) ==
    /\ pc[t] \in {"done", "raised"}
    /\ t \notin collected
    /\ collected' = collected \cup {t}
    /\ IF IsPrototypeRun
       THEN IF pc[t] = "done" /\ result[t].success
            THEN success_count' = success_count + 1 /\ UNCHANGED error_count
            ELSE error_count' = error_count + 1 /\ UNCHANGED success_count
       ELSE UNCHANGED <<success_count, error_count>>
    /\ UNCHANGED <<cfgVars, envVars, workerVars, semVars, dbVars>>

Next ==
    \/ \E t \in source_list : Start(t)
    \/ \E t \in source_list : StartRaises(t)
    \/ \E t \in source_list : Acquire(t)
    \/ \E t \in source_list : Wake(t)
    \/ \E t \in source_list : AcquireDbLock(t)
    \/ \E t \in source_list : TsQueryRaises(t)
    \/ \E t \in source_list : TsQueryReturns(t)
    \/ \E t \in source_list : TsParseFails(t)
    \/ \E t \in source_list : TsParse(t)
    \/ \E t \in source_list : TsInsertSource(t)
    \/ \E t \in source_list : TsSave(t)
    \/ \E t \in source_list : TsProcessingRaises(t)
    \/ \E t \in source_list : ConeQueryRaises(t)
    \/ \E t \in source_list : ConeQueryReturns(t)
    \/ \E t \in source_list : ConeInsertSource(t)
    \/ \E t \in source_list : ConeSaveRaw(t)
    \/ \E t \in source_list : ConeEpochs(t)
    \/ \E t \in source_list : TapQueryRaises(t)
    \/ \E t \in source_list : TapQueryReturns(t)
    \/ \E t \in source_list : TapInsertSource(t)
    \/ \E t \in source_list : TapSaveRaw(t)
    \/ \E t \in source_list : TapEpochs(t)
    \/ \E t \in source_list : PsBusyTimeout(t)
    \/ \E t \in source_list : PsValueError(t)

Spec == Init /\ [][Next]_vars

(***************************************************************************)
(* The retry controller under contention: more pool threads than permits,  *)
(* a catalog without rows, remote calls free to raise                      *)
(***************************************************************************)
PoolPaths(n) == {[t \in 1..n |-> p] : p \in {"ts", "cone", "tap"}}

InitPool ==
    InitWith(NumPoolWorkers, {[t \in 1..NumPoolWorkers |-> TableEmpty]},
             PoolPaths(NumPoolWorkers), {NumPoolWorkers}, MaxPoolFaults)

NextPool ==
    \/ \E t \in source_list : Start(t)
    \/ \E t \in source_list : Acquire(t)
    \/ \E t \in source_list : Wake(t)
    \/ \E t \in source_list : TsQueryRaises(t)
    \/ \E t \in source_list : TsQueryReturns(t)
    \/ \E t \in source_list : TsParse(t)
    \/ \E t \in source_list : ConeQueryRaises(t)
    \/ \E t \in source_list : ConeQueryReturns(t)
    \/ \E t \in source_list : TapQueryRaises(t)
    \/ \E t \in source_list : TapQueryReturns(t)

SpecPool == InitPool /\ [][NextPool]_vars

(***************************************************************************)
(* The run seen from the driver: the workers and the as_completed loop.    *)
(* Pool threads are scheduled by the operating system and time.sleep, the  *)
(* lock and semaphore waits and the busy timeout all end, so a step that   *)
(* stays possible is eventually taken.                                     *)
(***************************************************************************)
NextDriver ==
    \/ Next
    \/ \E t \in source_list : Collect(t)

SpecDriver == Init /\ [][NextDriver]_vars /\ WF_vars(NextDriver)

(***************************************************************************)
(* More pool threads than permits, two sources with rows to store, every   *)
(* remote call returning: the semaphore, db_lock and SQLite's writer lock  *)
(* are all contended. Fair as the driver's run is.                         *)
(***************************************************************************)
InitContend ==
    InitWith(NumPoolWorkers,
             {[t \in 1..NumPoolWorkers |->
                  IF t <= NumWriters THEN TableGood ELSE TableEmpty]},
             PoolPaths(NumPoolWorkers), {NumPoolWorkers}, 0)

NextContend ==
    \/ \E t \in source_list : Start(t)
    \/ \E t \in source_list : Acquire(t)
    \/ \E t \in source_list : Wake(t)
    \/ \E t \in source_list : AcquireDbLock(t)
    \/ \E t \in source_list : TsQueryReturns(t)
    \/ \E t \in source_list : TsParse(t)
    \/ \E t \in source_list : TsInsertSource(t)
    \/ \E t \in source_list : TsSave(t)
    \/ \E t \in source_list : ConeQueryReturns(t)
    \/ \E t \in source_list : ConeInsertSource(t)
    \/ \E t \in source_list : ConeSaveRaw(t)
    \/ \E t \in source_list : ConeEpochs(t)
    \/ \E t \in source_list : TapQueryReturns(t)
    \/ \E t \in source_list : TapInsertSource(t)
    \/ \E t \in source_list : TapSaveRaw(t)
    \/ \E t \in source_list : TapEpochs(t)
    \/ \E t \in source_list : PsBusyTimeout(t)

SpecContend == InitContend /\ [][NextContend]_vars /\ WF_vars(NextContend)

(***************************************************************************)
(* The retry loops when the remote errors are of two classes (transient:   *)
(* timeout, 5xx, 429; permanent: other 4xx, malformed response) and when   *)
(* the user interrupts the script: KeyboardInterrupt is raised in the main *)
(* thread, inside the as_completed loop; leaving the `with                 *)
(* ThreadPoolExecutor` block waits for the pool threads, which go on.      *)
(***************************************************************************)
Interrupt ==
    /\ ~cancel
    /\ ~Returned
    /\ cancel' = TRUE
    /\ at_cancel' = [t \in source_list |-> [pc |-> pc[t], calls |-> calls[t]]]
    /\ UNCHANGED <<source_list, catalog, path, num_workers, coords, runVars,
                   mainVars, queryVars, fault_kinds, exitVars, remote_faults,
                   workerVars, semVars, dbVars, driverVars>>

InitRetry ==
    /\ InitRun(NumRetrySources, {[t \in 1..NumRetrySources |-> TableGood]},
               RunPaths(NumRetrySources), {NumRetrySources}, MaxRemoteFaults)
    /\ InitMainIdle
    /\ InitQueryIdle
    /\ fault_kinds = {"transient", "permanent"}
    /\ cancel = FALSE
    /\ at_cancel = << >>
    /\ summary = << >>
    /\ exit_status = "running"

NextRetry ==
    \/ \E t \in source_list : Start(t)
    \/ \E t \in source_list : Acquire(t)
    \/ \E t \in source_list : Wake(t)
    \/ \E t \in source_list : AcquireDbLock(t)
    \/ \E t \in source_list : TsQueryRaises(t)
    \/ \E t \in source_list : TsQueryReturns(t)
    \/ \E t \in source_list : TsParse(t)
    \/ \E t \in source_list : TsInsertSource(t)
    \/ \E t \in source_list : TsSave(t)
    \/ \E t \in source_list : ConeQueryRaises(t)
    \/ \E t \in source_list : ConeQueryReturns(t)
    \/ \E t \in source_list : ConeInsertSource(t)
    \/ \E t \in source_list : ConeSaveRaw(t)
    \/ \E t \in source_list : ConeEpochs(t)
    \/ \E t \in source_list : TapQueryRaises(t)
    \/ \E t \in source_list : TapQueryReturns(t)
    \/ \E t \in source_list : TapInsertSource(t)
    \/ \E t \in source_list : TapSaveRaw(t)
    \/ \E t \in source_list : TapEpochs(t)
    \/ Interrupt

SpecRetry == InitRetry /\ [][NextRetry]_vars

(***************************************************************************)
(* The two drivers from the source list to the end of the script:          *)
(* batch_process_sources_parallel (the pool, the as_completed loop, the    *)
(* summary) and batch_process_sources (one thread and one connection, held *)
(* in txn[1]: get_neowise_raw_data for each source in turn, conn.close(),  *)
(* the summary).  A source list may have no row.                           *)
(***************************************************************************)
\* get_neowise_raw_data for the next source of the sequential loop, as one
\* step of the only thread: the query (an exception of it is caught inside
\* and gives two empty frames), INSERT OR IGNORE INTO sources, the cutoff,
\* the raw rows, commit, the epochs, commit; the loop counts a success when
\* a frame has rows and an error when an exception leaves the function
SeqProcess(t) ==
    /\ ~args.parallel
    /\ exit_status = "running"
    /\ pc[t] = "queued"
    /\ \A u \in source_list : u < t => pc[u] # "queued"
    /\ calls' = [calls EXCEPT ![t] = @ + 1]
    /\ \E raises \in {FALSE} \cup {remote_faults > 0} :
          LET tbl == IF raises THEN << >> ELSE SortMjd(catalog[t])
              cut == MjdCutoff(tbl)
              row == IF \E r \in db.sources \cup txn[1].sources :
                            r.source_id = t
                     THEN {}
                     ELSE {[source_id |-> t, ra |-> coords[t].ra,
                            dec |-> coords[t].dec,
                            allwise_cntr |-> tbl[1].allwise_cntr]}
          IN  /\ remote_faults' = remote_faults - IF raises THEN 1 ELSE 0
              /\ failures' = [failures EXCEPT
                                ![t] = @ + IF raises THEN 1 ELSE 0]
              /\ last_raised' = [last_raised EXCEPT ![t] = raises]
              /\ raw_df' = [raw_df EXCEPT ![t] = tbl]
              /\ CASE tbl = << >> \/ Cardinality(Cntrs(tbl)) # 1 ->
                        /\ Return(t, FALSE, "No valid data")
                        /\ UNCHANGED <<db, txn, success_count, error_count>>
                   [] OTHER ->
                        IF tbl[1].allwise_cntr = NULL
                        THEN /\ Goto(t, "raised")
                             /\ error_count' = error_count + 1
                             /\ UNCHANGED <<result, db, txn, success_count>>
                        ELSE IF cut = << >>
                        THEN /\ Return(t, FALSE, "No valid data")
                             /\ txn' = [txn EXCEPT ![1].sources = @ \cup row]
                             /\ UNCHANGED <<db, success_count, error_count>>
                        ELSE /\ db' = Committed(1,
                                         [sources |-> row,
                                          raw |-> RawBag(cut, t),
                                          epoch |-> EpochBag(cut, t)])
                             /\ txn' = [txn EXCEPT ![1] = EmptyTxn]
                             /\ Return(t, EpochBag(cut, t) # EmptyBag,
                                       IF EpochBag(cut, t) # EmptyBag
                                       THEN "Success" ELSE "No valid data")
                             /\ success_count' =
                                    success_count
                                        + IF EpochBag(cut, t) # EmptyBag
                                          THEN 1 ELSE 0
                             /\ UNCHANGED error_count
    /\ UNCHANGED <<cfgVars, attempt, sleeps, fatal, semVars, db_lock,
                   sqlite_lock, collected>>

\* elapsed_time/len(source_list) raises ZeroDivisionError
ZeroDivision(divisor) == divisor = 0

\* after the loop: conn.close() of the sequential driver, then the summary;
\* its last line formats elapsed_time/len(source_list), and an exception there
\* leaves the function and main, and ends the script with a traceback
Summarise ==
    /\ exit_status = "running"
    /\ IF args.parallel THEN collected = source_list ELSE Returned
    /\ LET counts == << [line |-> "Successfully processed",
                         n |-> success_count],
                        [line |-> "Errors", n |-> error_count] >>
       IN  IF ZeroDivision(Cardinality(source_list))
           THEN /\ summary' = counts
                /\ exit_status' = "ZeroDivisionError"
           ELSE /\ summary' = Append(counts, [line |-> "Total time", n |-> 0])
                /\ exit_status' = "0"
    /\ txn' = IF args.parallel THEN txn
              ELSE [t \in source_list |-> EmptyTxn]
    /\ UNCHANGED <<source_list, catalog, path, num_workers, coords, runVars,
                   mainVars, queryVars, retryVars, remote_faults, workerVars,
                   semVars, db_lock, sqlite_lock, db, driverVars>>

SummaryCatalogs == {TableGood, TableNoPass, TableNoCntr, TablePreCut}

InitSummary ==
    /\ \E n \in 0..MaxListLen :
          InitRun(n, [1..n -> SummaryCatalogs], {[t \in 1..n |-> "cone"]},
                  {2}, 1)
    /\ args \in [use_tap : {FALSE}, parallel : BOOLEAN]
    /\ sources_df = [has_allwise_id |-> FALSE, AllWISE_ID |-> << >>]
    /\ dispatched = << >>
    /\ InitQueryIdle
    /\ InitRetryPlain

\* a pool thread runs only under batch_process_sources_parallel
Pooled(t) == args.parallel /\ pc[t] = "queued"

NextSummary ==
    \/ \E t \in {u \in source_list : Pooled(u)} : Start(t)
    \/ \E t \in source_list : Acquire(t)
    \/ \E t \in source_list : ConeQueryRaises(t)
    \/ \E t \in source_list : ConeQueryReturns(t)
    \/ \E t \in source_list : ConeInsertSource(t)
    \/ \E t \in source_list : ConeSaveRaw(t)
    \/ \E t \in source_list : ConeEpochs(t)
    \/ \E t \in source_list : PsBusyTimeout(t)
    \/ \E t \in source_list : PsValueError(t)
    \/ \E t \in source_list : Wake(t)
    \/ \E t \in {u \in source_list : args.parallel} : Collect(t)
    \/ \E t \in source_list : SeqProcess(t)
    \/ Summarise

SpecSummary == InitSummary /\ [][NextSummary]_vars

(***************************************************************************)
(* The script run again on the same database file: main with --sources     *)
(* (a new process: fresh pool, semaphore and lock, the source list read    *)
(* again), with --clear and with --drop, each between two ingests.  The    *)
(* remote catalog answers every call, the table parses and the database    *)
(* opens: an ingest meets no fault of its environment.                     *)
(***************************************************************************)
SourceListCoords(n) ==
    [1..n -> [ra : 1..MaxCoord, dec : {1}]]

\* batch_process_sources_parallel: create_neowise_database (CREATE TABLE IF
\* NOT EXISTS: the rows of an existing file stay), then one future per row of
\* the source list
Ingest(c) ==
    /\ Returned
    /\ run < MaxRuns
    /\ run' = run + 1
    /\ db_exists' = TRUE
    /\ coords' = c
    /\ pc' = [t \in source_list |-> "queued"]
    /\ attempt' = [t \in source_list |-> 0]
    /\ raw_df' = [t \in source_list |-> << >>]
    /\ result' = [t \in source_list |-> NoResult]
    /\ calls' = [t \in source_list |-> 0]
    /\ sleeps' = [t \in source_list |-> << >>]
    /\ failures' = [t \in source_list |-> 0]
    /\ fatal' = [t \in source_list |-> NoFatal]
    /\ last_raised' = [t \in source_list |-> FALSE]
    /\ query_semaphore' = MAX_CONCURRENT_QUERIES
    /\ permit' = [t \in source_list |-> FALSE]
    /\ db_lock' = 0
    /\ sqlite_lock' = 0
    /\ txn' = [t \in source_list |-> EmptyTxn]
    /\ collected' = {}
    /\ success_count' = 0
    /\ error_count' = 0
    /\ UNCHANGED <<source_list, catalog, path, num_workers, remote_faults, db,
                   clear_result, store_at_clear, frontVars>>

\* conn.execute('VACUUM') returns: SQLite refuses it ("cannot VACUUM from
\* within a transaction") while the connection has a transaction open
Vacuum(in_transaction) == ~in_transaction

\* clear_database: False when the file is missing; else DELETE FROM the three
\* tables (the sqlite3 module opens a transaction before the first DELETE),
\* VACUUM, commit, True; an exception is logged and gives False, and the
\* connection is dropped with its transaction, which rolls the DELETEs back
ClearDatabase(exists, store) ==
    IF ~exists THEN [ok |-> FALSE, store |-> store]
    ELSE LET in_transaction == TRUE
         IN  IF Vacuum(in_transaction)
             THEN [ok |-> TRUE, store |-> EmptyTxn]
             ELSE [ok |-> FALSE, store |-> store]

\* main with --clear
Clear ==
    /\ Returned
    /\ Len(clear_result) < MaxClears
    /\ LET out == ClearDatabase(db_exists, db)
       IN  /\ db' = out.store
           /\ clear_result' =
                  Append(clear_result,
                         [after_run |-> run, existed |-> db_exists,
                          ok |-> out.ok])
    /\ store_at_clear' = db
    /\ UNCHANGED <<source_list, catalog, path, num_workers, coords, run,
                   db_exists, remote_faults, workerVars, semVars, db_lock,
                   sqlite_lock, txn, driverVars, frontVars>>

\* main with --drop: drop_database removes the file
Drop ==
    /\ Returned
    /\ db_exists
    /\ db_exists' = FALSE
    /\ db' = EmptyTxn
    /\ UNCHANGED <<source_list, catalog, path, num_workers, coords, run,
                   clear_result, store_at_clear, remote_faults, workerVars,
                   semVars, db_lock, sqlite_lock, txn, driverVars, frontVars>>

StorePaths(n) == {[t \in 1..n |-> p] : p \in {"ts", "cone", "tap"}}

InitStore ==
    InitWith(NumStoreSources, [1..NumStoreSources -> StoreTables],
             StorePaths(NumStoreSources), {NumStoreSources}, 0)

NextStore ==
    \/ \E t \in source_list : Start(t)
    \/ \E t \in source_list : Acquire(t)
    \/ \E t \in source_list : Wake(t)
    \/ \E t \in source_list : AcquireDbLock(t)
    \/ \E t \in source_list : TsQueryReturns(t)
    \/ \E t \in source_list : TsParse(t)
    \/ \E t \in source_list : TsInsertSource(t)
    \/ \E t \in source_list : TsSave(t)
    \/ \E t \in source_list : TsProcessingRaises(t)
    \/ \E t \in source_list : ConeQueryReturns(t)
    \/ \E t \in source_list : ConeInsertSource(t)
    \/ \E t \in source_list : ConeSaveRaw(t)
    \/ \E t \in source_list : ConeEpochs(t)
    \/ \E t \in source_list : TapQueryReturns(t)
    \/ \E t \in source_list : TapInsertSource(t)
    \/ \E t \in source_list : TapSaveRaw(t)
    \/ \E t \in source_list : TapEpochs(t)
    \/ \E t \in source_list : PsValueError(t)
    \/ \E c \in SourceListCoords(NumStoreSources) : Ingest(c)
    \/ Clear
    \/ Drop

SpecStore == InitStore /\ [][NextStore]_vars

(***************************************************************************)
(* main: from the command line and the CSV source list to the fetch        *)
(* function called for each item                                           *)
(***************************************************************************)
Designation == "J000000.00+000000.0"

\* str(row['AllWISE_ID'])
Str(cell) == IF cell = NaN THEN "nan" ELSE cell

\* bool(x) of a string or None
Truthy(x) == x # None /\ x # ""

\* if args.use_tap and not has_allwise_id: args.use_tap = False
UseTap(a, df) == a.use_tap /\ df.has_allwise_id

\* the (source_id, ra, dec[, allwise_id]) tuple main builds of row i
SourceListItem(df, i) ==
    IF df.has_allwise_id
    THEN <<i, 1, 1, Str(df.AllWISE_ID[i])>>
    ELSE <<i, 1, 1>>

\* allwise_id = args[3] if len(args) > 3 else None
AllwiseIdOf(item) == IF Len(item) > 3 THEN item[4] ELSE None

\* _process_single_source: if use_tap and allwise_id: ... else: ...
FetchFunction(use_tap, item) ==
    IF use_tap /\ Truthy(AllwiseIdOf(item)) THEN "tap" ELSE "cone"

\* the item of row i reaches its fetch function: through
\* batch_process_sources_parallel and _process_single_source with
\* --parallel, else through batch_process_sources, which knows the cone
\* search only
Dispatch(i) ==
    /\ dispatched[i] = "none"
    /\ dispatched' =
           [dispatched EXCEPT
              ![i] = IF args.parallel
                     THEN FetchFunction(UseTap(args, sources_df),
                                        SourceListItem(sources_df, i))
                     ELSE "cone"]
    /\ UNCHANGED <<source_list, catalog, path, num_workers, coords, runVars,
                   args, sources_df, queryVars, retryVars, exitVars,
                   remote_faults,
                   workerVars, semVars, dbVars, driverVars>>

\* the CSV files: without the AllWISE_ID column, or with it and each cell a
\* designation or missing
SourceFiles(n) ==
    {[has_allwise_id |-> FALSE, AllWISE_ID |-> [i \in 1..n |-> NaN]]}
        \cup {[has_allwise_id |-> TRUE, AllWISE_ID |-> c] :
                  c \in [1..n -> {Designation, NaN}]}

InitDispatch ==
    /\ InitRun(0, {<< >>}, {<< >>}, {1}, 0)
    /\ args \in [use_tap : BOOLEAN, parallel : BOOLEAN]
    /\ sources_df \in SourceFiles(NumRows)
    /\ dispatched = [i \in 1..NumRows |-> "none"]
    /\ InitQueryIdle
    /\ InitRetryPlain

NextDispatch == \E i \in DOMAIN dispatched : Dispatch(i)

SpecDispatch == InitDispatch /\ [][NextDispatch]_vars

(***************************************************************************)
(* The Query Service: GET /api/lightcurve/neowise with raw=true of the     *)
(* prototype backend and of the solution2 backend, and                     *)
(* GET /api/neowise/filtered/{source_id} of the prototype backend, asked   *)
(* once the ingest of the source has ended                                 *)
(***************************************************************************)
\* SELECT ... FROM neowise_raw_observations WHERE source_id = ? ORDER BY mjd
RECURSIVE OrderByMjd(_)
OrderByMjd(B) ==
    IF BagToSet(B) = {} THEN << >>
    ELSE LET r == CHOOSE x \in BagToSet(B) :
                      \A y \in BagToSet(B) : x.mjd <= y.mjd
         IN  <<r>> \o OrderByMjd(B (-) SetToBag({r}))

RawData(source_id) ==
    LET rows == {r \in BagToSet(db.raw) : r.source_id = source_id}
    IN  OrderByMjd([r \in rows |-> db.raw[r]])

\* band_idx = 0 if band == 'W1' else 1, every band read at index 0
QsBandIdxZero(band) == 0

\* band_idx = 0 if band == 'W1' else 1
QsBandIdx(band) == IF band = "W1" THEN 0 ELSE 1

\* mask &= ... for every apply_* that is true; a comparison with a null is
\* false
Mask(r, band_idx, apply) ==
    /\ apply["cc_flags"] =>
           Len(r.cc_flags) > band_idx /\ r.cc_flags[band_idx + 1] = "0"
    /\ apply["sso_flg"] => r.sso_flg = 0
    /\ apply["qi_fact"] => r.qi_fact = 10
    /\ apply["saa_sep"] => r.saa_sep # NULL /\ r.saa_sep >= 50
    /\ apply["ph_qual"] =>
           Len(r.ph_qual) > band_idx /\ r.ph_qual[band_idx + 1] = "A"
    /\ apply["moon_masked"] =>
           Len(r.moon_masked) > band_idx /\ r.moon_masked[band_idx + 1] = "0"
    /\ apply["sat"] => r.sat # NULL /\ r.sat <= 5
    /\ apply["rchi2"] => r.rchi2 # NULL /\ r.rchi2 <= 50
    /\ apply["qual_frame"] => r.qual_frame # NULL /\ r.qual_frame > 0
    /\ apply["sky"] => r.sky # NULL

\* the rows of the band that the mask keeps: filtered_band / filtered_data
Filtered(raw_data, band, apply) ==
    LET InBand(r) == r.band = band
        Keep(r) == Mask(r, QsBandIdx(band), apply)
    IN  SelectSeq(SelectSeq(raw_data, InBand), Keep)

\* 'mag': mpro_corrected with apply_zp_correction, else mpro
WithMag(df, apply) ==
    [i \in DOMAIN df |->
        [mjd |-> df[i].mjd, band |-> df[i].band,
         mag |-> IF apply["zp_correction"] THEN df[i].mpro_corrected
                 ELSE df[i].mpro]]

\* if std_mag > 0 and not np.isnan(std_mag): keep mean - 3 std <= mag <=
\* mean + 3 std (the inequality of SigmaClip)
QsSigmaClip(df) ==
    LET n == Len(df)
        S == SumSeq([i \in DOMAIN df |-> df[i].mag])
        Q == SumSeq([i \in DOMAIN df |-> df[i].mag * df[i].mag])
        Keep(r) == (n * r.mag - S) * (n * r.mag - S) * (n - 1)
                       <= 9 * n * (n * Q - S * S)
    IN  IF n > 1 /\ n * Q - S * S > 0 THEN SelectSeq(df, Keep) ELSE df

\* the series of one band: mask, magnitude, clipping
BandSeries(raw_data, band, apply) ==
    LET filtered == Filtered(raw_data, band, apply)
        with_mag == WithMag(filtered, apply)
    IN  [filtered |-> filtered,
         data |-> IF apply["sigma_clipping"] THEN QsSigmaClip(with_mag)
                  ELSE with_mag]

\* solution2: SELECT mjd, band, mpro_corrected as mag ... WHERE source_id = ?
\* and nothing else
UnfilteredSeries(raw_data, band) ==
    LET InBand(r) == r.band = band
        band_data == SelectSeq(raw_data, InBand)
    IN  [filtered |-> band_data,
         data |-> WithMag(band_data, DefaultApply)]

\* the handler once the source is known: 404 when the source (or, for the
\* filtered endpoint, a raw row of the band) is not in the Store; else the
\* series of each band asked for
Series(q, source_id) ==
    LET raw_data == RawData(source_id)
        bands == IF q.endpoint = "filtered" THEN {q.band} ELSE Bands
        InBands(r) == r.band \in bands
    IN  IF \/ /\ q.endpoint = "lightcurve"
              /\ ~\E r \in db.sources : r.source_id = source_id
           \/ q.endpoint = "filtered" /\ SelectSeq(raw_data, InBands) = << >>
        THEN [status |-> 404]
        ELSE [status |-> 200,
              series |-> [b \in bands |->
                             IF q.service = "solution2"
                             THEN UnfilteredSeries(raw_data, b)
                             ELSE BandSeries(raw_data, b, q.apply)]]

\* a request that names its source
Handle(q) == Series(q, q.source_id)

Requests ==
    [service : {"prototype"}, endpoint : {"lightcurve"}, source_id : {1},
     band : {"none"}, ra : {0}, dec : {0}, apply : [Toggles -> BOOLEAN]]
        \cup [service : {"prototype"}, endpoint : {"filtered"},
               source_id : {1}, band : Bands, ra : {0}, dec : {0},
               apply : [Toggles -> BOOLEAN]]
        \cup [service : {"solution2"}, endpoint : {"lightcurve"},
               source_id : {1}, band : {"none"}, ra : {0}, dec : {0},
               apply : [Toggles -> BOOLEAN]]

\* the client asks once, when the ingest has ended
Askable == IF request = NoRequest /\ Returned THEN Requests ELSE {}

Query(q) ==
    /\ Returned
    /\ request = NoRequest
    /\ request' = q
    /\ response' = Handle(q)
    /\ UNCHANGED <<source_list, catalog, path, num_workers, coords, runVars,
                   mainVars, retryVars, exitVars, remote_faults, workerVars,
                   semVars,
                   dbVars,
                   driverVars>>

InitQuery ==
    InitWith(1, [1..1 -> QueryTables], {<<"ts">>}, {1}, 0)

NextQuery ==
    \/ \E t \in source_list : Start(t)
    \/ \E t \in source_list : Acquire(t)
    \/ \E t \in source_list : AcquireDbLock(t)
    \/ \E t \in source_list : TsQueryReturns(t)
    \/ \E t \in source_list : TsParse(t)
    \/ \E t \in source_list : TsInsertSource(t)
    \/ \E t \in source_list : TsSave(t)
    \/ \E q \in Askable : Query(q)

SpecQuery == InitQuery /\ [][NextQuery]_vars

(***************************************************************************)
(* A request by coordinates: the nearest source of the Store (prototype    *)
(* and solution2 backends) or of the JSON files exported for the same      *)
(* sources (solution1 backend).  Positions are in units of 0.003 arcsec,   *)
(* so 0.00083 degree is 996 units and the squared distance is compared     *)
(* with its square.                                                        *)
(***************************************************************************)
\* the 0.00083 of 'distance > 0.00083' and 'min_distance < 0.00083'
MatchRadius == 996

\* ((sources['ra'] - ra)**2 + (sources['dec'] - dec)**2)**0.5, squared
Distance2(s, ra, dec) == (s.ra - ra) * (s.ra - ra) + (s.dec - dec) * (s.dec - dec)

\* sources.loc[sources['distance'].idxmin()]: the first row of the least
\* distance, rows in the order of their insertion (one pool worker: the
\* order of the source ids)
Closest(ra, dec) ==
    LET least(s) == \A r \in db.sources :
                        Distance2(s, ra, dec) <= Distance2(r, ra, dec)
    IN  {s \in db.sources :
            /\ least(s)
            /\ \A r \in db.sources : least(r) => s.source_id <= r.source_id}

\* the loop over data_dir.glob("*.json") keeps the first file of the least
\* distance; the order of glob is the file system's
ClosestFile(ra, dec) ==
    {s \in db.sources :
        \A r \in db.sources : Distance2(s, ra, dec) <= Distance2(r, ra, dec)}

\* the match is accepted
Accepts(service, d2) ==
    IF service = "solution1" THEN d2 < MatchRadius * MatchRadius
    ELSE ~(d2 > MatchRadius * MatchRadius)

CoordinateOffsets == {0, 600, 995, 996, 997, 1000, 1001, 1500}

CoordinateRequests ==
    [service : {"prototype", "solution2", "solution1"},
     endpoint : {"lightcurve"}, source_id : {0}, band : {"none"},
     ra : {2000 + x : x \in CoordinateOffsets}, dec : {2000, 2800},
     apply : {DefaultApply}]

\* the client asks once, when the ingest has ended
Locatable ==
    IF request = NoRequest /\ Returned THEN CoordinateRequests ELSE {}

\* GET /api/lightcurve/neowise?ra=..&dec=..&raw=true
Locate(q) ==
    /\ Returned
    /\ request = NoRequest
    /\ request' = q
    /\ IF db.sources = {}
       THEN response' = [status |-> 404]
       ELSE \E s \in IF q.service = "solution1"
                      THEN ClosestFile(q.ra, q.dec)
                      ELSE Closest(q.ra, q.dec) :
                IF ~Accepts(q.service, Distance2(s, q.ra, q.dec))
                THEN response' = [status |-> 404]
                ELSE IF q.service = "solution1"
                THEN response' = [status |-> 200, source_id |-> s.source_id]
                ELSE response' = [source_id |-> s.source_id]
                                     @@ Series(q, s.source_id)
    /\ UNCHANGED <<source_list, catalog, path, num_workers, coords, runVars,
                   mainVars, retryVars, exitVars, remote_faults, workerVars,
                   semVars,
                   dbVars,
                   driverVars>>

\* source 1 at (2000, 2000), source 2 at the same place, 1500 units east of
\* it, or far away
SourcePositions ==
    {[t \in 1..2 |-> IF t = 1 THEN [ra |-> 2000, dec |-> 2000]
                     ELSE [ra |-> 2000 + x, dec |-> 2000]] :
        x \in {0, 1500, 9000}}

InitNearest ==
    /\ InitRunAt(2, {[t \in 1..2 |-> TableMixed]},
                 {[t \in 1..2 |-> "ts"]}, {1}, 0, SourcePositions)
    /\ InitMainIdle
    /\ InitQueryIdle
    /\ InitRetryPlain

NextNearest ==
    \/ \E t \in source_list : Start(t)
    \/ \E t \in source_list : Acquire(t)
    \/ \E t \in source_list : AcquireDbLock(t)
    \/ \E t \in source_list : TsQueryReturns(t)
    \/ \E t \in source_list : TsParse(t)
    \/ \E t \in source_list : TsInsertSource(t)
    \/ \E t \in source_list : TsSave(t)
    \/ \E q \in Locatable : Locate(q)

SpecNearest == InitNearest /\ [][NextNearest]_vars

(***************************************************************************)
(* What the Store holds of one source                                      *)
(***************************************************************************)
HasSourceRow(t) == \E r \in db.sources : r.source_id = t

RawOf(t) == {r \in BagToSet(db.raw) : r.source_id = t}

EpochOf(t) == {r \in BagToSet(db.epoch) : r.source_id = t}

\* the rows of its source a worker goes on to write: get_neowise_threadsafe
\* keeps the most frequent allwise_cntr, get_neowise_raw_data gives up on
\* several, get_neowise_by_allwise_tap takes them all; then the MJD cutoff
Ingested(t) ==
    CASE path[t] = "ts" -> MjdCutoff(KeepMostFrequent(SortMjd(catalog[t])))
      [] path[t] = "cone" -> IF Cardinality(Cntrs(catalog[t])) # 1 THEN << >>
                             ELSE MjdCutoff(SortMjd(catalog[t]))
      [] path[t] = "tap" -> MjdCutoff(SortMjd(catalog[t]))

(***************************************************************************)
(* Properties                                                              *)
(***************************************************************************)
InCall == {t \in source_list : InRemoteCall(t)}

\* C1: in every reachable state of a parallel ingest, with more workers than
\* permits, at most MAX_CONCURRENT_QUERIES workers are inside a remote
\* catalog call (cone search or identifier search).
C1_AtMostCapacityInRemoteCall ==
    Cardinality(InCall) <= MAX_CONCURRENT_QUERIES

\* the semaphore is exhausted: as many workers in a remote call as there are
\* permits while a further worker waits to acquire one
C1_Witness ==
    /\ Cardinality(InCall) = MAX_CONCURRENT_QUERIES
    /\ \E t \in source_list : pc[t] = "acquire"

\* C2: every INSERT or commit is executed by a worker that holds db_lock (so
\* at most one worker writes at a time), on the cone-search path as on the
\* identifier-search path.
C2_WritesHoldDbLock ==
    \A t \in source_list : pc[t] \in WritePcs => db_lock = t

\* C3: in every committed database state a source has either none of its
\* Source, RawObservation and EpochSummary rows or all of them.
C3_AtomicGroup ==
    \A t \in source_list :
        \/ ~HasSourceRow(t) /\ RawOf(t) = {} /\ EpochOf(t) = {}
        \/ /\ HasSourceRow(t)
           /\ RawBag(Ingested(t), t) \sqsubseteq db.raw
           /\ EpochBag(Ingested(t), t) \sqsubseteq db.epoch

\* C4: a worker whose last remote call failed returns only after
\* max_attempts remote calls have failed, and returns
\* (source_id, False, error of the last attempt).
C4_RemoteFailureAfterMaxAttempts ==
    \A t \in source_list :
        pc[t] = "done" /\ last_raised[t] =>
            /\ failures[t] = max_attempts
            /\ result[t] = Outcome(FALSE, RemoteError(max_attempts))

\* C5: the sleeps of a worker are 1.1 s, 2.2 s, 4.3 s in this order, one
\* after each failed remote call but the max_attempts-th; two failures
\* followed by a success give exactly 3 remote calls and the sleeps
\* 1.1 s, 2.2 s.
C5_BackoffSchedule ==
    \A t \in source_list :
        /\ Len(sleeps[t]) =
               IF failures[t] < max_attempts THEN failures[t]
               ELSE max_attempts - 1
        /\ sleeps[t] = SubSeq(<<11, 22, 43>>, 1, Len(sleeps[t]))
        /\ pc[t] = "done" /\ failures[t] = 2 /\ ~last_raised[t] =>
               calls[t] = 3 /\ sleeps[t] = <<11, 22>>

OutsideCallPcs ==
    {"queued", "acquire", "sleep", "done", "raised", "ts_parse", "ts_lock1",
     "ts_ins_source", "ts_lock2", "ts_save"}

\* C6: the permit is released on every exit path of the call: the permits
\* left plus the permits held always make the capacity, a worker outside
\* the call (asleep before a retry, returned, raised) holds none, and when
\* all workers have returned the permits left equal the capacity.
C6_PermitsReleased ==
    /\ query_semaphore + Cardinality({t \in source_list : permit[t]})
           = MAX_CONCURRENT_QUERIES
    /\ \A t \in source_list : pc[t] \in OutsideCallPcs => ~permit[t]
    /\ Returned => query_semaphore = MAX_CONCURRENT_QUERIES

\* all workers have returned, one of them through the final failure of its
\* retry loop, and every permit is back
C6_Witness ==
    /\ Returned
    /\ \E t \in source_list :
           result[t].msg \in {SqliteError, RemoteError(max_attempts)}
    /\ \E t \in source_list : Len(sleeps[t]) > 0 /\ result[t].success
    /\ query_semaphore = MAX_CONCURRENT_QUERIES

AllCollected ==
    /\ collected = source_list
    /\ IsPrototypeRun =>
           success_count + error_count = Cardinality(source_list)

\* C7: no error in a worker aborts the run: the driver eventually holds one
\* outcome per item of the source list, and in batch_process_sources_parallel
\* success_count + error_count = N from then on, whatever remote, parse and
\* database errors the workers met.
C7_EveryOutcomeCollected == <>[]AllCollected

\* the run is over with one item counted a success and one an error, after
\* a worker raised or returned a database or remote error
C7_Witness ==
    /\ AllCollected
    /\ success_count = 1 /\ error_count = 1
    /\ \E t \in source_list :
           \/ pc[t] = "raised"
           \/ result[t].msg \in {SqliteError, ValueError}

\* the last fetch gave rows of one allwise_cntr that survive the MJD cutoff
\* and of which none passes the default filter in either band
NonePasses(t) ==
    /\ ~last_raised[t]
    /\ Cardinality(Cntrs(catalog[t])) = 1
    /\ MjdCutoff(catalog[t]) # << >>
    /\ \A band \in Bands :
           DefaultFilter(DropNa(MjdCutoff(catalog[t]), band), band) = << >>

\* C8: a worker that returns its verdict on a source whose rows survive the
\* cutoff and all fail the default filter has stored the Source row and
\* every raw row, no EpochSummary row, and reports success.
C8_NoEpochRowsIsSuccess ==
    \A t \in source_list :
        /\ pc[t] = "done"
        /\ NonePasses(t)
        /\ result[t].msg \in {"Success", "No valid data"}
        => /\ HasSourceRow(t)
           /\ RawBag(MjdCutoff(catalog[t]), t) \sqsubseteq db.raw
           /\ EpochOf(t) = {}
           /\ result[t].success

\* the fetched rows are all at or below the ZP table's minimum MJD
EmptyAfterCutoff(t) == catalog[t] # << >> /\ MjdCutoff(catalog[t]) = << >>

\* C9: a source that is empty after the MJD cutoff is reported failed and
\* has no Source, RawObservation or EpochSummary row in the Store (the
\* cutoff comes before the Source upsert).
C9_NothingStoredWhenEmptyAfterCutoff ==
    \A t \in source_list :
        pc[t] = "done" /\ EmptyAfterCutoff(t) =>
            /\ ~result[t].success
            /\ ~HasSourceRow(t)
            /\ RawOf(t) = {}
            /\ EpochOf(t) = {}

\* C10: once the worker has returned, with or without retries, the Store
\* holds each fetched exposure of its source at most once per band.
C10_RawRowsOnce ==
    \A t \in source_list :
        pc[t] = "done" => \A r \in RawOf(t) : CopiesIn(r, db.raw) = 1

\* C11: upserting a source_id that is already stored leaves the stored row
\* untouched: the sources table holds at most one row per source_id, and no
\* step of an ingest (no clear, no drop) changes or removes a stored row, so
\* its ra, dec and allwise_cntr stay those of the first insert.
C11_UpsertLeavesRowUntouched ==
    /\ [](\A r, q \in db.sources : r.source_id = q.source_id => r = q)
    /\ [][clear_result' = clear_result /\ db_exists'
              => \A r \in db.sources : r \in db'.sources]_vars

\* a second ingest gave the source list row another ra, its worker went
\* through the upsert and succeeded, and the stored row has the first ra
C11_Witness ==
    /\ run = 2
    /\ \E t \in source_list :
           /\ pc[t] = "done" /\ result[t].success
           /\ \E r \in db.sources :
                  r.source_id = t /\ r.ra # coords[t].ra

\* the last clear_database call, when no ingest started after it
LastClear == clear_result[Len(clear_result)]

JustCleared == clear_result # << >> /\ LastClear.after_run = run

\* C13: after clear() on an existing database the three tables are empty in
\* the committed state and clear reported success; on a missing database
\* file clear reported failure and created nothing.
C13_ClearEmptiesTables ==
    JustCleared =>
        IF LastClear.existed
        THEN LastClear.ok /\ db = EmptyTxn
        ELSE ~LastClear.ok /\ ~db_exists /\ db = EmptyTxn

\* the second ingest has ended; clear() was last called on the database the
\* first ingest left, and the source list is the one of the first ingest
IngestedClearedIngested ==
    /\ run = 2
    /\ Returned
    /\ clear_result # << >>
    /\ LastClear.after_run = 1 /\ LastClear.existed
    /\ coords = [t \in source_list |-> [ra |-> 1, dec |-> 1]]

\* C12: ingesting a source list, calling clear() and ingesting the same list
\* against the same remote responses leaves the Store with the contents it
\* had after the first ingest.
C12_IngestIdempotentModuloClear ==
    IngestedClearedIngested => db = store_at_clear

\* the remote catalog holds rows of several allwise_cntr values for the source
MultiCntr(t) == Cardinality(Cntrs(catalog[t])) > 1

\* C14: when the fetched rows carry more than one allwise_cntr the worker
\* keeps exactly the rows of the most frequent value, stores that value as
\* Source.allwise_cntr and goes on with those rows: once it has returned
\* (and while the database file is there), the Store holds the Source row
\* with that value and, as raw rows, those of the most frequent value and
\* no others.
C14_KeepsMostFrequentCntr ==
    \A t \in source_list :
        pc[t] = "done" /\ db_exists /\ MultiCntr(t) =>
            /\ \E r \in db.sources :
                   /\ r.source_id = t
                   /\ r.allwise_cntr = MostFrequent(catalog[t])
            /\ RawOf(t) =
                   BagToSet(RawBag(MjdCutoff(KeepMostFrequent(catalog[t])), t))
            /\ result[t].success

\* the row of the source list has an AllWISE_ID
HasAllwiseId(i) ==
    sources_df.has_allwise_id /\ sources_df.AllWISE_ID[i] # NaN

\* C15: in a parallel ingest an item is fetched by identifier (TAP) search
\* if and only if TAP mode is enabled and its row of the source list has an
\* allwise_id; every other item is fetched by cone search.
C15_TapIffEnabledAndIdPresent ==
    \A i \in DOMAIN dispatched :
        args.parallel /\ dispatched[i] # "none" =>
            IF args.use_tap /\ HasAllwiseId(i)
            THEN dispatched[i] = "tap"
            ELSE dispatched[i] = "cone"

\* a stored raw row satisfies the ten default predicates of its band
PassesDefault(r) ==
    \A p \in Predicates : Predicate(p, r, BandIdx(r.band))

\* the epoch_id values the Store holds for a source and band
StoredEpochIds(t, band) == {r.epoch_id : r \in {q \in EpochOf(t) : q.band = band}}

RawOfBand(t, band) == {r \in RawOf(t) : r.band = band}

\* an EpochSummary row has at least one point and a standard error that is
\* not negative, and zero for a single point
WellFormedEpochRow(r) ==
    /\ r.n_points >= 1
    /\ r.mag_se >= 0
    /\ r.n_points = 1 => r.mag_se = 0

\* C16 as claimed: every EpochSummary row is well formed and the epoch_id
\* values stored for a (source, band) are consecutive integers, without a
\* gap.
C16_EpochIdsContiguous ==
    /\ \A r \in BagToSet(db.epoch) : WellFormedEpochRow(r)
    /\ \A t \in source_list, band \in Bands :
           \A a, b \in StoredEpochIds(t, band) :
               \A c \in a..b : c \in StoredEpochIds(t, band)

\* C16, amended: every EpochSummary row is well formed, and the epoch_id
\* values stored for a (source, band) lie in {0, ..., n - 1} for the n
\* raw rows stored for that source and band; the ids are those given by
\* the grouping before the SNR selection, so an epoch that fails the
\* selection leaves a gap.
C16_EpochRowsWellFormed ==
    /\ \A r \in BagToSet(db.epoch) : WellFormedEpochRow(r)
    /\ \A t \in source_list, band \in Bands :
           \A e \in StoredEpochIds(t, band) :
               e >= 0 /\ e < Cardinality(RawOfBand(t, band))

\* a band holds the epochs 0 and 2 and not the epoch 1 between them, and an
\* epoch of a single point with standard error 0
C16_Witness ==
    \E t \in source_list, band \in Bands :
        /\ StoredEpochIds(t, band) = {0, 2}
        /\ \E r \in EpochOf(t) :
               r.band = band /\ r.n_points = 1 /\ r.mag_se = 0
        /\ \E r \in EpochOf(t) : r.n_points > 1

\* C17 as claimed: a source with an EpochSummary row in band B has a raw row
\* in band B, and every raw row of the source in band B satisfies the ten
\* default quality-filter predicates.
C17_EveryRawRowPassesDefaultFilter ==
    \A t \in source_list, band \in Bands :
        StoredEpochIds(t, band) # {} =>
            /\ RawOfBand(t, band) # {}
            /\ \A r \in RawOfBand(t, band) : PassesDefault(r)

\* C17, amended: a source with an EpochSummary row in band B has at least
\* one raw row in band B that satisfies the ten default quality-filter
\* predicates; the raw table holds the rows that fail them as well.
C17_SomeRawRowPassesDefaultFilter ==
    \A t \in source_list, band \in Bands :
        StoredEpochIds(t, band) # {} =>
            \E r \in RawOfBand(t, band) : PassesDefault(r)

\* a band of a source has an epoch, a raw row that passes the default filter
\* and a raw row that fails it
C17_Witness ==
    \E t \in source_list, band \in Bands :
        /\ StoredEpochIds(t, band) # {}
        /\ \E r \in RawOfBand(t, band) : PassesDefault(r)
        /\ \E r \in RawOfBand(t, band) : ~PassesDefault(r)

\* a stored row satisfies every predicate of the Kernel whose toggle is true,
\* the flag characters read at index 0 for W1 and 1 for W2
SatisfiesEnabled(r, band, apply) ==
    \A p \in Predicates : apply[p] => Predicate(p, r, BandIdx(band))

\* the rows of the band in the Store that satisfy the enabled predicates, in
\* the order of the query
ExpectedRetained(band, apply) ==
    LET Keep(r) == r.band = band /\ SatisfiesEnabled(r, band, apply)
    IN  SelectSeq(RawData(request.source_id), Keep)

\* C19: in the prototype's Query Service (light-curve endpoint with raw=true
\* and filtered endpoint), the rows of a band retained before sigma clipping
\* are exactly the raw rows of the band that satisfy every quality predicate
\* whose toggle is true, flag characters read at index 0 for W1 and 1 for W2;
\* and with any one true toggle switched to false, every retained row is still
\* retained.
C19_RetainedIffEnabledPredicatesHold ==
    (response.status = 200 /\ request.service = "prototype") =>
        \A b \in DOMAIN response.series :
            /\ response.series[b].filtered = ExpectedRetained(b, request.apply)
            /\ \A p \in Predicates :
                   request.apply[p] =>
                       Range(response.series[b].filtered) \subseteq
                           Range(Filtered(RawData(request.source_id), b,
                                          [request.apply EXCEPT ![p] = FALSE]))

\* a request with the sso_flg toggle off and the cc_flags toggle on for a
\* source whose rows each fail one predicate: the W2 row of the moving object
\* is retained, the W2 row with cc_flags "0D" is dropped, the W1 row with
\* cc_flags "0D" is retained
C19_Witness ==
    /\ response.status = 200
    /\ request.service = "prototype"
    /\ request.endpoint = "lightcurve"
    /\ ~request.apply["sso_flg"]
    /\ request.apply["cc_flags"]
    /\ \E r \in Range(response.series["W2"].filtered) : r.sso_flg = 1
    /\ \E r \in Range(RawData(request.source_id)) :
           r.band = "W2" /\ r.cc_flags = <<"0", "D">>
    /\ ~\E r \in Range(response.series["W2"].filtered) :
            r.cc_flags = <<"0", "D">>
    /\ \E r \in Range(response.series["W1"].filtered) :
            r.cc_flags = <<"0", "D">>

Mjds(df) == [i \in DOMAIN df |-> df[i].mjd]

\* the cleaning steps of the Kernel run on the stored raw rows of the band
\* with the toggles of the request: enabled predicates, mpro - dmag of the
\* row's scan (mpro with the toggle off), sigma clipping
KernelOnPersisted(band, apply) ==
    LET merged == MergeZp(ExpectedRetained(band, apply), band)
        corrected ==
            [i \in DOMAIN merged |->
                [mjd |-> merged[i].row.mjd,
                 mag |-> IF apply["zp_correction"]
                         THEN merged[i].row.mpro - merged[i].dmag
                         ELSE merged[i].row.mpro]]
    IN  IF apply["sigma_clipping"] THEN SigmaClip(corrected) ELSE corrected

\* what the ingest of the source retained in the band before it grouped the
\* epochs
IngestRetained(band) ==
    LET df == MjdCutoff(KeepMostFrequent(catalog[1]))
    IN  SigmaClip(ZpCorrect(DefaultFilter(DropNa(df, band), band), band))

\* C18: with raw=true, for every toggle setting the observations of a band in
\* the Query Service's result are those that the Kernel's cleaning steps, run
\* with the same toggles on the stored raw rows of the source, retain; with
\* all toggles true they are exactly the observations the ingest retained
\* before epoch grouping.
C18_QueryEqualsKernelOnPersistedRows ==
    response.status = 200 =>
        \A b \in DOMAIN response.series :
            /\ Mjds(response.series[b].data)
                   = Mjds(KernelOnPersisted(b, request.apply))
            /\ request.apply = DefaultApply =>
                   Mjds(response.series[b].data) = Mjds(IngestRetained(b))

\* the squared distance of the request to the nearest source
NearestDistance2 ==
    CHOOSE d \in {Distance2(s, request.ra, request.dec) : s \in db.sources} :
        \A s \in db.sources : d <= Distance2(s, request.ra, request.dec)

\* C20: a request by coordinates is answered with the nearest source if and
\* only if that source is at most 3 arcseconds (1000 units of 0.003 arcsec)
\* away: at exactly 3 arcseconds it is accepted, farther it is not found.
C20_AcceptedIffWithinThreeArcsec ==
    (request.service # "none" /\ request.source_id = 0 /\ db.sources # {}) =>
        (response.status = 200 <=> NearestDistance2 <= 1000 * 1000)

\* C21: a permanent remote error on any attempt fails the source at once:
\* the worker has returned a failure, made no remote call after the one that
\* raised it and taken no backoff sleep after it.
C21_PermanentErrorFailsAtOnce ==
    \A t \in source_list :
        fatal[t] # NoFatal =>
            /\ pc[t] = "done"
            /\ ~result[t].success
            /\ calls[t] = fatal[t].calls
            /\ Len(sleeps[t]) = fatal[t].sleeps

\* C22: once the cancel signal is given, a worker that was sleeping in a
\* backoff makes no further remote attempt, holds no semaphore permit, and
\* what it returns is an "aborted" outcome.
C22_CancelStopsRetries ==
    cancel =>
        \A t \in source_list :
            at_cancel[t].pc = "sleep" =>
                /\ calls[t] = at_cancel[t].calls
                /\ ~permit[t]
                /\ pc[t] = "done" => result[t].msg = "aborted"

\* C23: with a source list of zero sources the driver, parallel or
\* sequential, ends with exit status 0 and without an exception, its summary
\* printed with zero successes and zero failures.
C23_EmptyListEndsNormally ==
    (source_list = {} /\ exit_status # "running") =>
        /\ exit_status = "0"
        /\ Len(summary) = 3
        /\ summary[1].n = 0
        /\ summary[2].n = 0

\* the rows of its source and band a worker groups into epochs
Clipped(t, band) ==
    SigmaClip(ZpCorrect(DefaultFilter(DropNa(Ingested(t), band), band), band))

\* the selected epochs of the band whose mag_lim is not a finite number
NonFiniteEpochs(t, band) ==
    LET table_3sigma == Clipped(t, band)
        ids == EpochIds(table_3sigma)
    IN  {e \in GoodEpochIds(table_3sigma, ids) :
            MagLim(RowsOfEpoch(table_3sigma, ids, e)) # "finite"}

\* C24: no EpochSummary row holds a mag_lim that is NaN or infinite; an epoch
\* whose mag_lim comes out as such has its row written with mag_lim null, and
\* its source succeeds.
C24_NonFiniteMagLimStoredAsNull ==
    /\ \A r \in BagToSet(db.epoch) : r.mag_lim \in {"finite", "null"}
    /\ \A t \in source_list, b \in Bands :
           (db_exists /\ pc[t] = "done") =>
               \A e \in NonFiniteEpochs(t, b) :
                   /\ result[t].success
                   /\ \E r \in BagToSet(db.epoch) :
                          /\ r.source_id = t
                          /\ r.band = b
                          /\ r.epoch_id = e
                          /\ r.mag_lim = "null"

\* a source ingested with an epoch of non-finite mag_lim
C24_Witness ==
    \E t \in source_list :
        /\ db_exists
        /\ pc[t] = "done"
        /\ NonFiniteEpochs(t, "W1") # {}
        /\ \E r \in BagToSet(db.epoch) : r.source_id = t /\ r.mag_lim = "null"

\* the epochs of the band of SNR at least k
EpochsAtLeast(t, band, k) ==
    LET df == Clipped(t, band)
        ids == EpochIds(df)
    IN  {e \in Range(ids) : SnrAtLeast(RowsOfEpoch(df, ids, e), k)}

Ascending(df) == \A i \in 1..(Len(df) - 1) : df[i].mjd <= df[i + 1].mjd

\* the number of consecutive pairs at least 100 d apart up to row i
GapsBefore(df, i) ==
    Cardinality({j \in 2..i : df[j].mjd - df[j - 1].mjd >= EpochGap})

\* C26: the rows a worker is about to group into epochs are in ascending mjd
\* order on every ingest path, and the EpochSummary rows of an ingested band
\* are those of the grouping that starts at 0 and steps by one at each
\* consecutive pair of rows at least 100 d apart: an epoch id stored is the
\* number of such pairs before one of the rows, and its n_points is the
\* number of rows with that many such pairs before them.
C26_EpochIdCountsGaps ==
    /\ \A t \in source_list :
           pc[t] \in {"ts_save", "cone_epochs", "tap_epochs"} =>
               Ascending(raw_df[t])
    /\ \A t \in source_list, band \in Bands :
           (db_exists /\ pc[t] = "done" /\ result[t].success) =>
               LET df == Clipped(t, band) IN
                  /\ Ascending(df)
                  /\ \A r \in EpochOf(t) :
                         r.band = band =>
                             r.n_points =
                                 Cardinality({i \in DOMAIN df :
                                     GapsBefore(df, i) = r.epoch_id})

\* a source ingested whose rows the service returned out of order, the last
\* visit first: its two visits are stored as the epochs 0 and 1
C26_Witness ==
    \E t \in source_list :
        /\ db_exists
        /\ pc[t] = "done"
        /\ ~Ascending(catalog[t])
        /\ StoredEpochIds(t, "W1") = {0, 1}
        /\ \E r \in EpochOf(t) :
               r.band = "W1" /\ r.epoch_id = 0 /\ r.n_points = 2

\* the steps that run _process_band_with_default_filter (filter, zero-point
\* correction, clipping, aggregation) before they insert its rows
KernelPcs == {"ts_save", "cone_epochs", "tap_epochs"}

\* C27: a worker that is about to run the kernel does not hold db_lock.
C27_KernelOutsideDbLock ==
    \A t \in source_list : pc[t] \in KernelPcs => db_lock # t

\* C28: a worker that holds a permit of query_semaphore is inside the remote
\* call; sleeping in backoff, running the kernel, waiting for or holding
\* db_lock, it holds none.
C28_PermitOnlyInRemoteCall ==
    \A t \in source_list : permit[t] => InRemoteCall(t)

\* C29: with more workers than permits and fair scheduling, every worker
\* ends with an outcome and stays there, and a worker that waits for a
\* permit never holds db_lock.
C29_EveryWorkerReturns ==
    /\ [](\A t \in source_list : pc[t] = "acquire" => db_lock # t)
    /\ <>[]Returned

\* every permit is taken and a further worker waits for one, while a worker
\* that holds a permit waits for db_lock, held by another
C29_Witness ==
    /\ query_semaphore = 0
    /\ \E t \in source_list : pc[t] = "acquire"
    /\ \E u \in source_list :
           pc[u] \in LockPcs /\ permit[u] /\ db_lock \notin {0, u}

\* the dmag values the zero-point table gives for a scan: 0 when it has none
DmagsOf(scan_id, band) ==
    LET hits == {i \in DOMAIN zp_stb : zp_stb[i].scan_id = scan_id}
    IN  IF hits = {} THEN {0} ELSE {Dmag(zp_stb[i], band) : i \in hits}

\* C30: after the first ingest of a source into an empty store, the raw rows
\* stored for a band are as many as the fetched rows with a magnitude in the
\* band that survive the MJD cutoff, and each stored mpro_corrected is, to
\* four decimals, the magnitude of a fetched exposure of that mjd minus the
\* dmag of its scan (0 for a scan the zero-point table lacks).
C30_ZpKeepsRowCount ==
    \A t \in source_list, band \in Bands :
        (db_exists /\ run = 1 /\ clear_result = << >> /\ pc[t] = "done"
            /\ result[t].success) =>
            LET df == DropNa(Ingested(t), band)
                stored == RawOfBand(t, band)
            IN  /\ SumSeq([i \in DOMAIN df |-> 1]) =
                       BagCardinality([r \in stored |-> db.raw[r]])
                /\ \A r \in stored :
                       \E i \in DOMAIN df :
                           /\ df[i].mjd = r.mjd
                           /\ \E d \in DmagsOf(df[i].scan_id, band) :
                                  r.mpro_corrected = Round4(Mag(df[i], band) - d)

====
